---- MODULE Spec2Model ----
(***************************************************************************)
(* A model of the Kp (Firepower 2100) console automation:                  *)
(*   - KpStateMachine.create (kp/actions/statemachine.py): the states, the *)
(*     paths and the default statement of the prompt state machine;        *)
(*   - KpDialogs (kp/actions/dialogs.py): the dialogs of the paths;        *)
(*   - KpLine (kp/actions/kp.py): the provisioning workflows.              *)
(* The dialog engine and the state machine engine (Dialog.process,         *)
(* StateMachine.go_to) are library code that the repository only calls;    *)
(* they are modelled after sections 4.1 and 4.2 of the specification.      *)
(*                                                                         *)
(* One session line is modelled.  pc is its call stack: the head is the    *)
(* label the line is at, the tail the labels its callers resume at; the    *)
(* empty stack is a line at rest, waiting for its caller's next operation. *)
(***************************************************************************)
EXTENDS Integers, Sequences, FiniteSets, TLC

VARIABLES
    current_state,   \* sm.current_state, the believed state of the device
    pc,              \* call stack of labels, <<>> when no operation runs
    op,              \* the operation the caller started last
    entry_state,     \* current_state when that operation was started
    args,            \* the arguments of that operation
    result,          \* outcome of that operation, Running until it ends
    sent,            \* log of the lines written to the stream; it starts
                     \* anew when a workflow method is entered
    to_state,        \* go_to: its argument
    route,           \* go_to: the Paths still to execute
    start_state,     \* go_to: current_state when it was called
    mark,            \* go_to: Len(sent) when it was called
    hops,            \* go_to: the Paths executed so far
    dlg,             \* the dialog being processed, "" when none
    run_state,       \* current_state when the last dialog run began
    lastMatch,       \* the last match of the last dialog run
    fprm_ver,        \* is_firmware_fp2k_ready: the version the device showed
    packages,        \* download_ftd_fp2k: the package names the device showed
    retry_count,     \* download_ftd_fp2k: attempts left
    response,        \* validate_version: what 'show version' printed
    wait_upto,       \* polling loop: its deadline, in seconds
    status,          \* polling loop: what the last status check reported
    apps,            \* poll_ssh_connection: the operational states of the
                     \* application instances that the device showed last
    clock,           \* polling loop: seconds since start_time
    elapsed_time,    \* polling loop: its variable of that name
    polls,           \* polling loop: status checks made
    slept,           \* polling loop: seconds slept
    change_password_flag,  \* the line's field of that name
    power_bar,       \* the line's power_bar_server, _port, _user and _pwd
    power_cycled,    \* what the operation passed to power_cycle_all_ports
    steps,           \* baseline_fp2k_ftd: the steps it has begun
    rebooted,        \* history: the operation has booted or rebooted the
                     \* device and has not called go_to('any') since
    lines,           \* the lines the Kp object has handed to its caller
    active,          \* the index in lines of the line the caller works with
    metrics,         \* the counters published since the caller started the
                     \* operation, one entry for each increment
    KpConstants,     \* the attributes power_bar_server, _port, _user and
                     \* _pwd of the class KpConstants, one for the process
    power_bar_given  \* history: the power bar arguments of the constructor
                     \* of the device whose lines the caller works with

devvars == <<KpConstants, power_bar_given>>
callvars == <<op, entry_state, args, lines, active, metrics, devvars>>
gtvars == <<to_state, route, start_state, mark, hops>>
dlgvars == <<dlg, run_state, lastMatch>>
dlvars == <<fprm_ver, packages, retry_count, response>>
pollvars == <<wait_upto, status, apps, clock, elapsed_time, polls, slept>>
linevars == <<change_password_flag, power_bar, power_cycled, steps, rebooted>>

vars == <<current_state, pc, result, sent, callvars, gtvars, dlgvars, dlvars,
          pollvars, linevars>>

(***************************************************************************)
(* Bounds of the model.                                                    *)
(***************************************************************************)
\* how many patterns one buffer content may satisfy at the same time
MaxMatch == 2

\* how many matches in a row of one rule the model tells apart in a dialog
\* run; the engine itself keeps no such count
MaxRepeat == 2

\* seconds of polling that the model follows one call of a polling loop for
MaxClock == 1830

(***************************************************************************)
(* Symbolic patterns and credentials (KpPatterns).                         *)
(***************************************************************************)
password_prompt == "password_prompt"
login_password == "login_password"
sudo_password == "sudo_password"
default_password == "default_password"
login_username == "login_username"

\* State(name, pattern): the detection pattern of a state
StatePattern(s) == "prompt:" \o s

(***************************************************************************)
(* KpStateMachine.create                                                   *)
(***************************************************************************)
\* the add_state calls, in order
states ==
    << "prelogin_state", "fxos_state", "fireos_state", "expert_state",
       "sudo_state", "rommon_state", "local_mgmt_state", "enable_state",
       "disable_state", "config_state" >>

StateNames == { states[i] : i \in DOMAIN states }

\* A dialog rule [pattern, action, args, loop_continue, continue_timer];
\* the action is split into its kind and its text.
Rule(p, kind, text, lc, ct) ==
    [pattern |-> p, kind |-> kind, text |-> text,
     loop_continue |-> lc, continue_timer |-> ct]

\* a transition to sudo_state whose dialog has no rule of its own
d_expert_to_sudo_no_rule == << >>

\* KpDialogs.__init__
d_expert_to_sudo ==
    << Rule(password_prompt, "sendline", sudo_password, TRUE, TRUE) >>

d_ftd_to_fxos ==
    << Rule("Please enter 'exit' to go back", "sendline", "exit", TRUE, FALSE) >>

d_prelogin_to_fxos ==
    << Rule(password_prompt, "sendline", login_password, TRUE, TRUE) >>

\* The lina cli dialogs (ftd_dialogs), as the chassis dialogs of the same
\* names define them.
d_enable_to_disable ==
    << Rule(StatePattern("enable_state"), "sendline", "disable", TRUE, TRUE),
       Rule("Request refused. Exiting ...", "none", "", FALSE, FALSE),
       Rule(StatePattern("config_state"), "sendline", "end", TRUE, TRUE) >>

d_disable_to_enable ==
    << Rule(StatePattern("disable_state"), "sendline", "en", TRUE, TRUE),
       Rule(password_prompt, "sendline", "", TRUE, TRUE),
       Rule("Request refused. Exiting ...", "none", "", FALSE, FALSE),
       Rule(StatePattern("config_state"), "sendline", "end", TRUE, TRUE) >>

d_endisable_to_conft ==
    << Rule(StatePattern("disable_state"), "sendline", "en", TRUE, TRUE),
       Rule(password_prompt, "sendline", "", TRUE, TRUE),
       Rule("Request refused. Exiting ...", "none", "", FALSE, FALSE),
       Rule(StatePattern("enable_state"), "sendline", "conf t", TRUE, TRUE) >>

disable_to_enable ==
    << Rule(password_prompt, "sendline", "", TRUE, TRUE) >>

\* 'sudo lina_cli' asks for the sudo password
d_expert_to_disable ==
    << Rule(password_prompt, "sendline", sudo_password, TRUE, TRUE) >>

\* Path(from_state, to_state, command, dialog): the Path objects that create
\* constructs, under the names of its local variables
NoDialog == << >>

Path(f, t, c, d) == [from |-> f, to |-> t, command |-> c, dialog |-> d]

CreatedPaths ==
    [ prelogin_to_fxos |->
          Path("prelogin_state", "fxos_state", "", d_prelogin_to_fxos),
      fxos_to_prelogin |->
          Path("fxos_state", "prelogin_state", "top; exit", NoDialog),
      fxos_to_ftd |->
          Path("fxos_state", "fireos_state", "connect ftd", NoDialog),
      fxos_to_local_mgmt |->
          Path("fxos_state", "local_mgmt_state", "connect local-mgmt", NoDialog),
      ftd_to_expert |->
          Path("fireos_state", "expert_state", "expert", NoDialog),
      ftd_expert_to_sudo |->
          Path("expert_state", "sudo_state", "sudo su -", d_expert_to_sudo),
      ftd_sudo_to_expert |->
          Path("sudo_state", "expert_state", "exit", NoDialog),
      expert_to_ftd |->
          Path("expert_state", "fireos_state", "exit", NoDialog),
      local_mgmt_to_fxos |->
          Path("local_mgmt_state", "fxos_state", "exit", NoDialog),
      ftd_to_fxos |->
          Path("fireos_state", "fxos_state", "connect fxos", d_ftd_to_fxos),
      expert_to_disable_path |->
          Path("expert_state", "disable_state", "sudo lina_cli",
               d_expert_to_disable),
      fireos_to_disable_state |->
          Path("fireos_state", "disable_state",
               "system support diagnostic-cli", d_enable_to_disable),
      fireos_to_enable_state |->
          Path("fireos_state", "enable_state",
               "system support diagnostic-cli", d_disable_to_enable),
      fireos_to_config_state |->
          Path("fireos_state", "config_state",
               "system support diagnostic-cli", d_endisable_to_conft),
      disable_to_enable_state |->
          Path("disable_state", "enable_state", "en", disable_to_enable),
      enable_to_disable_state |->
          Path("enable_state", "disable_state", "disable", NoDialog),
      disable_to_fireos_path |->
          Path("disable_state", "fireos_state", "^Ad exit", NoDialog),
      enable_to_config_path |->
          Path("enable_state", "config_state", "conf t", NoDialog),
      config_to_enable_path |->
          Path("config_state", "enable_state", "end", NoDialog) ]

\* the add_path calls, in order
AddedPaths ==
    << "prelogin_to_fxos", "fxos_to_prelogin", "fxos_to_ftd",
       "fxos_to_local_mgmt", "ftd_to_expert", "ftd_expert_to_sudo",
       "ftd_sudo_to_expert", "expert_to_ftd", "ftd_to_fxos",
       "local_mgmt_to_fxos", "expert_to_disable_path",
       "fireos_to_disable_state", "fireos_to_enable_state",
       "fireos_to_config_state", "disable_to_enable_state",
       "enable_to_disable_state", "disable_to_fireos_path",
       "enable_to_config_path", "config_to_enable_path" >>

PathsNamed(names) == [ i \in DOMAIN names |-> CreatedPaths[names[i]] ]

\* create with the add_path call of expert_to_disable_path left out
paths_one_not_added ==
    PathsNamed(SelectSeq(AddedPaths,
                         LAMBDA n : n # "expert_to_disable_path"))

\* create with a further path, from the local management shell into rommon
paths_into_rommon ==
    Append(PathsNamed(AddedPaths),
           Path("local_mgmt_state", "rommon_state", "reboot", NoDialog))

\* create with the add_path call of disable_to_fireos_path left out
paths_no_way_back ==
    PathsNamed(SelectSeq(AddedPaths,
                         LAMBDA n : n # "disable_to_fireos_path"))

\* self.paths of the state machine
paths == PathsNamed(AddedPaths)

\* add_default_statements(self.statements.login_password): after the
\* inactivity timer the device asks for the login password again
default_statements ==
    << Rule(password_prompt, "sendline", login_password, TRUE, FALSE) >>

(***************************************************************************)
(* Outcomes.  An operation ends with Ok or with an exception; an exception *)
(* carries its message's parameters.                                       *)
(***************************************************************************)
Err(type, msg, target, count) ==
    [type |-> type, msg |-> msg, target |-> target, count |-> count]

Ok == Err("ok", "", "", 0)
Running == Err("running", "", "", 0)
NoPathError(a, b) == Err("NoPathError", a, b, 0)
StateDetectionError == Err("StateDetectionError", "", "any", 0)
DialogTimeout(name) == Err("DialogTimeout", "", name, 0)
RuntimeError(msg, target, count) == Err("RuntimeError", msg, target, count)

(***************************************************************************)
(* Calls, returns and exceptions on the call stack.                        *)
(***************************************************************************)
\* the errors of the state machine itself; a dialog failure inside go_to
\* aborts it with the underlying error, which is not one of them
StateMachineErrors == { "NoPathError", "StateDetectionError" }

\* try blocks of which the one around the dialog of wait_for_rommon goes on
\* after a timeout
Handle_timeout_ignored(label, e) ==
    IF label = "wait_for_rommon_update" /\ e.type = "DialogTimeout"
    THEN [do |-> "resume", e |-> e]
    ELSE [do |-> "raise", e |-> e]

\* a mutant of already_there: go_to looks for a path whatever the state
already_there_never(current, target) == FALSE

\* go_to: the state asked for is the current state
already_there(current, target) == current = target

\* a mutant of unknown_state_kept: every line is kept
unknown_state_kept_always(chassis_line) == TRUE

\* KpLine.__init__: "if not chassis_line: raise"; only a console line may
\* remain in an unknown state
unknown_state_kept(chassis_line) == chassis_line

\* a mutant of Handle: no function has a try block
Handle_no_try(label, e) == [do |-> "raise", to |-> "", e |-> e]

\* a mutant of Handle: every frame catches the exception and goes on
Handle_and_continue(label, e) == [do |-> "resume", to |-> "", e |-> e]

\* the try blocks: what the frame that resumes at `label` does with the
\* exception e that a call it made has raised
Handle(label, e) ==
    IF /\ label \in { "init_terminal_fxos", "init_terminal_cmds" }
       /\ e.type \in StateMachineErrors
    THEN \* init_terminal: except StateMachineError: return
         [do |-> "return", e |-> e]
    ELSE IF label = "KpLine_detected"
    THEN \* KpLine.__init__: except around super().__init__
         IF unknown_state_kept(args.chassis_line)
         THEN [do |-> "goto", to |-> "KpLine_rommon", e |-> e]
         ELSE [do |-> "raise", to |-> "",
               e |-> Err("RuntimeError", "Unknown device state", "", 0)]
    ELSE IF label = "KpLine_in_rommon"
    THEN \* KpLine.__init__: except around wait_for_rommon: return
         [do |-> "goto", to |-> "KpLine_alive", e |-> e]
    ELSE IF label = "rommon_tftp_done"
    THEN \* rommon_tftp_download: except: raise RuntimeError
         [do |-> "raise",
          e |-> Err("RuntimeError", "Download failed. Please check details",
                    "tftp_server, rommon_file", 0)]
    ELSE [do |-> "raise", e |-> e]

\* the stack and the exception that are left when e is raised below `stack`
RECURSIVE Unwind(_, _)
Unwind(stack, e) ==
    IF stack = << >> THEN [pc |-> << >>, e |-> e]
    ELSE LET h == Handle(Head(stack), e)
         IN CASE h.do = "return" -> [pc |-> Tail(stack), e |-> Ok]
              [] h.do = "resume" -> [pc |-> stack, e |-> Ok]
              [] h.do = "goto" -> [pc |-> << h.to >> \o Tail(stack), e |-> Ok]
              [] OTHER -> Unwind(Tail(stack), h.e)

At(label) == pc # << >> /\ Head(pc) = label

\* continue at `label` in the same function
Goto(label) == pc' = << label >> \o Tail(pc) /\ UNCHANGED result

\* call the function at `callee`, resume at `resume` when it returns
Call(callee, resume) ==
    pc' = << callee, resume >> \o Tail(pc) /\ UNCHANGED result

\* call one function after the other, resume at `resume` after the last
CallBoth(first, second, resume) ==
    pc' = << first, second, resume >> \o Tail(pc) /\ UNCHANGED result

Return ==
    /\ pc' = Tail(pc)
    /\ result' = IF Len(pc) = 1 THEN Ok ELSE result

Raise(e) ==
    LET left == Unwind(Tail(pc), e)
    IN /\ pc' = left.pc
       /\ result' = IF left.pc = << >> THEN left.e ELSE result

(***************************************************************************)
(* Arguments.                                                              *)
(***************************************************************************)
RECURSIVE Join(_)
Join(segs) ==
    IF Len(segs) = 1 THEN segs[1] ELSE segs[1] \o "/" \o Join(Tail(segs))

\* a url, with what url.split("/") gives
Url(segs) == [text |-> Join(segs), segments |-> segs]

Versions == { "6.2.1-1088", "6.2.2-81" }

\* words of the State line of a download task; Pending stands for any word
\* other than the three the code names
Statuses == { "Pending", "Downloading", "Downloaded", "Failed" }

PackageNames ==
    { "cisco-ftd-fp2k.6.2.1-1088.SSA", "cisco-ftd-fp2k.6.2.2-81.SSA" }

\* what 'show package' may list: nothing, or the bundle package and others
PackageLists == { {}, PackageNames }

Urls ==
    { Url(<< "scp:", "", "pxe@172.23.47.63:", "tftpboot",
             "cisco-ftd-fp2k.6.2.1-1088.SSA" >>),
      Url(<< "tftp:", "", "10.89.23.80", "netboot",
             "cisco-ftd-fp2k.6.2.1-1088.SSA" >>),
      Url(<< "http:", "", "10.89.23.80",
             "cisco-ftd-fp2k.6.2.1-1088.SSA" >>) }

\* an argument the operation has not looked at yet
Unread == "?"

\* the values an argument may turn out to have when it is looked at
Choices(value, values) == IF value = Unread THEN values ELSE { value }

\* Python's None, where "" is a value of its own
None == "<None>"

\* mode; manager; uut_ip6, "" for None
Modes == { "local", "remote" }
Managers == { None, "fmc" }
Ip6s == { "", "2001:db8::2" }

NoArgs ==
    [ fxos_url |-> Url(<< "" >>), ftd_version |-> "", wait_upto |-> 0,
      sleep_step |-> 0, power_cycle_flag |-> FALSE, mode |-> Unread,
      manager |-> Unread, uut_ip6 |-> Unread, chassis_line |-> TRUE,
      power_bar |-> [server |-> None, port |-> None,
                     user |-> "admn", pwd |-> "admn"],
      wait_until_device_is_on |-> TRUE ]

\* Kp.__init__: power_bar_server='', power_bar_port='',
\* power_bar_user='admn', power_bar_pwd='admn'
PowerBar(server, port) ==
    [server |-> server, port |-> port, user |-> "admn", pwd |-> "admn"]

\* an attribute that was never assigned
Unset == "<unset>"

\* the power bar attributes of a line whose constructor returned before it
\* assigned them
NoPowerBar ==
    [server |-> Unset, port |-> Unset, user |-> Unset, pwd |-> Unset]

\* Kp.__init__: self.sm = KpStateMachine(self.patterns), the one state
\* machine object of the device
KpSm == "Kp.sm"

\* a line at rest: the state machine object it was given, whether its
\* constructor determined the state before it returned, and its own
\* attributes as they are while the caller works with another line
Line(chassis_line, determined, flag, bar) ==
    [ chassis_line |-> chassis_line, sm |-> KpSm, determined |-> determined,
      change_password_flag |-> flag, power_bar |-> bar ]

(***************************************************************************)
(* The dialog engine (section 4.1): Dialog.process.                        *)
(***************************************************************************)
NoMatch == [name |-> "", satisfied |-> {}, index |-> 0, origin |-> "",
            rule |-> Rule("", "none", "", FALSE, FALSE), times |-> 0]

\* the statement that ends a transition: the detection pattern of its
\* to-state
StateStatement(s) == Rule(StatePattern(s), "none", "", FALSE, FALSE)

\* the dialog of a transition: the rules of the Path first, the default
\* statements after them, then the detection pattern of the to-state
TransitionDialog(p) ==
    p.dialog \o default_statements \o << StateStatement(p.to) >>

\* wait_for_rommon: d
d_wait_for_rommon ==
    << Rule("Boot in 10 seconds.", "sendline", "ESC", FALSE, FALSE),
       Rule(StatePattern("rommon_state"), "none", "", FALSE, FALSE) >>

\* download_ftd_fp2k: d
d_download ==
    << Rule("continue connecting (yes/no)?", "sendline", "yes", TRUE, FALSE),
       Rule("Password:", "sendline", "file_server_password", TRUE, FALSE),
       Rule(StatePattern("fxos_state"), "none", "", FALSE, FALSE) >>

\* wait_until_device_on: d
device_on_d ==
    << Rule("vdc 1 has come online", "none", "", FALSE, FALSE),
       Rule("SW-DRBG health test passed", "none", "", FALSE, FALSE) >>

\* format_goto_rommon: d
format_d ==
    << Rule("Do you still want to format", "sendline", "yes", FALSE, FALSE) >>

\* rommon_factory_reset_and_format: d1 and d2
factory_reset_d1 ==
    << Rule("rommon.*> ", "sendline", "factory-reset", TRUE, FALSE),
       Rule(" yes/no .*:", "sendline", "yes", FALSE, FALSE) >>

factory_reset_d2 ==
    << Rule("[a-zA-Z0-9_-]+.*login: ", "sendline", "admin", TRUE, FALSE),
       Rule("Password: ", "sendline", default_password, FALSE, FALSE),
       Rule("boot: cannot determine first file name on device", "none", "",
            FALSE, FALSE) >>

\* a mutant of tftp_d: the rommon prompt ends the dialog
tftp_d_no_retry ==
    << Rule("rommon.*> ", "sendline", "tftpdnld", FALSE, FALSE),
       Rule("[a-zA-Z0-9_-]+[^\\bLast \\b] login: ", "sendline", "username",
            TRUE, FALSE),
       Rule("Password: ", "sendline", default_password, FALSE, FALSE) >>

\* rommon_tftp_download: d
tftp_d ==
    << Rule("rommon.*> ", "sendline", "tftpdnld", TRUE, FALSE),
       Rule("[a-zA-Z0-9_-]+[^\\bLast \\b] login: ", "sendline", "username",
            TRUE, FALSE),
       Rule("Password: ", "sendline", default_password, FALSE, FALSE) >>

\* __change_password: change_password_dialog
change_password_dialog ==
    << Rule("You are required to change your password", "none", "",
            TRUE, FALSE),
       Rule("System is coming up", "sleep", "60", TRUE, FALSE),
       Rule("[a-zA-Z0-9_-]+[^\\bLast \\b] login:", "sendline", login_username,
            TRUE, FALSE),
       Rule("Password: ", "sendline", default_password, TRUE, FALSE),
       Rule("Enter old password:", "sendline", default_password, TRUE, FALSE),
       Rule("Enter new password:", "sendline", login_password, TRUE, FALSE),
       Rule("Confirm new password:", "sendline", login_password, TRUE, FALSE),
       Rule("Your password (was|has been) updated successfully", "none", "",
            FALSE, FALSE),
       Rule(StatePattern("fxos_state"), "none", "", FALSE, FALSE) >>

\* d1 with its first rule moved to the end of the list
upgrade_d1_invalid_last(ftd_version) ==
    << Rule("Do you want to proceed", "sendline", "yes", TRUE, FALSE),
       Rule("Triggered the install of software package version "
                \o ftd_version, "none", "", TRUE, FALSE),
       Rule("Failed logins since the last login:", "none", "", FALSE, FALSE),
       Rule(StatePattern("rommon_state"), "sendline", "boot", TRUE, FALSE),
       Rule("Invalid Software Version", "none", "", FALSE, FALSE) >>

\* upgrade_bundle_package_fp2k: d1
upgrade_d1(ftd_version) ==
    << Rule("Invalid Software Version", "none", "", FALSE, FALSE),
       Rule("Do you want to proceed", "sendline", "yes", TRUE, FALSE),
       Rule("Triggered the install of software package version "
                \o ftd_version, "none", "", TRUE, FALSE),
       Rule("Stopping Cisco Firepower 21[1-4]0 Threat Defense", "none", "",
            TRUE, FALSE),
       Rule("Rebooting...", "none", "", TRUE, FALSE),
       Rule("Cisco FTD begins installation ...", "none", "", TRUE, FALSE),
       Rule("Cisco FTD installation finished successfully.", "none", "",
            TRUE, FALSE),
       Rule("Cisco FTD initialization finished successfully.", "none", "",
            TRUE, FALSE),
       Rule("INFO: Power-On Self-Test complete.", "none", "", TRUE, FALSE),
       Rule("INFO: SW-DRBG health test passed.", "none", "", TRUE, FALSE),
       Rule("Failed logins since the last login:", "none", "", FALSE, FALSE),
       Rule(StatePattern("rommon_state"), "sendline", "boot", TRUE, FALSE) >>

\* a mutant of fxos_login_password: the flag is not looked at
fxos_login_password_default(changed) == default_password

\* upgrade_bundle_package_fp2k: fxos_login_password and d2
fxos_login_password(changed) ==
    IF changed THEN login_password ELSE default_password

upgrade_d2(changed) ==
    << Rule("[a-zA-Z0-9_-]+[^\\bLast \\b] login: ", "sendline", "admin",
            TRUE, FALSE),
       Rule("Password: ", "sendline", fxos_login_password(changed),
            TRUE, FALSE),
       Rule("firepower.*#", "sendline", "connect ftd", TRUE, FALSE),
       Rule("Press <ENTER> to display the EULA: ", "sendline", "",
            FALSE, FALSE) >>

\* upgrade_bundle_package_fp2k: d3
upgrade_d3 ==
    << Rule("--More--", "send", "q", FALSE, FALSE),
       Rule("Please enter 'YES' or press <ENTER> to AGREE to the EULA: ",
            "sendline", "", FALSE, FALSE) >>

\* upgrade_bundle_package_fp2k: d4
upgrade_d4 ==
    << Rule("Please enter 'YES' or press <ENTER> to AGREE to the EULA: ",
            "sendline", "YES", TRUE, FALSE),
       Rule("Enter new password:", "sendline", "uut_password", TRUE, FALSE),
       Rule("Confirm new password:", "sendline", "uut_password", TRUE, FALSE),
       Rule("You must configure the network to continue.", "none", "",
            FALSE, FALSE) >>

\* upgrade_bundle_package_fp2k: d5, as its append calls build it
upgrade_d5(uut_ip6) ==
    << Rule("Do you want to configure IPv4", "sendline", "y", TRUE, FALSE),
       Rule("Do you want to configure IPv6", "sendline",
            IF uut_ip6 = "" THEN "n" ELSE "y", TRUE, FALSE),
       Rule("Configure IPv4 via DHCP or manually", "sendline", "manual",
            TRUE, FALSE),
       Rule("Enter an IPv4 address for the management interface",
            "sendline", "uut_ip", TRUE, FALSE),
       Rule("Enter an IPv4 netmask for the management interface",
            "sendline", "uut_netmask", TRUE, FALSE),
       Rule("Enter the IPv4 default gateway for the management interface",
            "sendline", "uut_gateway", TRUE, FALSE) >>
    \o (IF uut_ip6 = "" THEN << >>
        ELSE << Rule("Configure IPv6 via DHCP, router, or manually",
                     "sendline", "manual", TRUE, FALSE),
                Rule("Enter the IPv6 address for the management interface",
                     "sendline", uut_ip6, TRUE, FALSE),
                Rule("Enter the IPv6 address prefix for the management interface",
                     "sendline", "uut_prefix", TRUE, FALSE),
                Rule("Enter the IPv6 gateway for the management interface",
                     "sendline", "uut_gateway6", TRUE, FALSE) >>)
    \o << Rule("Enter a fully qualified hostname for this system ",
               "sendline", "uut_hostname", TRUE, FALSE),
          Rule("Enter a comma-separated list of DNS servers or",
               "sendline", "dns_servers", TRUE, FALSE),
          Rule("Enter a comma-separated list of search domains or",
               "sendline", "search_domains", FALSE, FALSE) >>

\* upgrade_bundle_package_fp2k: d6
upgrade_d6(mode) ==
    << Rule("Configure (firewall|deployment) mode", "sendline",
            "firewall_mode", TRUE, FALSE),
       Rule("Manage the device locally?", "sendline",
            IF mode = "local" THEN "yes" ELSE "no", TRUE, FALSE),
       Rule("Successfully performed firstboot initial configuration steps",
            "sendline", "", TRUE, FALSE),
       Rule(StatePattern("fireos_state"), "sendline", "", FALSE, FALSE) >>

\* the rules of the dialog that is being processed
DialogRules(name) ==
    CASE name = "transition" -> TransitionDialog(Head(route))
      [] name = "wait_for_rommon" -> d_wait_for_rommon
      [] name = "download" -> d_download
      [] name = "format_d" -> format_d
      [] name = "device_on_d" -> device_on_d
      [] name = "factory_reset_d1" -> factory_reset_d1
      [] name = "factory_reset_d2" -> factory_reset_d2
      [] name = "tftp_d" -> tftp_d
      [] name = "change_password_dialog" -> change_password_dialog
      [] name = "upgrade_d1" -> upgrade_d1(args.ftd_version)
      [] name = "upgrade_d2" -> upgrade_d2(change_password_flag)
      [] name = "upgrade_d3" -> upgrade_d3
      [] name = "upgrade_d4" -> upgrade_d4
      [] name = "upgrade_d5" -> upgrade_d5(args.uut_ip6)
      [] name = "upgrade_d6" -> upgrade_d6(args.mode)
      [] OTHER -> << >>

\* where the rule at index i of the dialog comes from
Origin(name, i) ==
    IF name # "transition" THEN "own"
    ELSE IF i <= Len(Head(route).dialog) THEN "path"
    ELSE IF i <= Len(Head(route).dialog) + Len(default_statements)
         THEN "default"
    ELSE "state"

PatternsOf(rules) == { rules[i].pattern : i \in DOMAIN rules }

\* the sets of at most k of the patterns P
RECURSIVE SetsUpTo(_, _)
SetsUpTo(P, k) ==
    IF k = 0 THEN { {} }
    ELSE LET smaller == SetsUpTo(P, k - 1)
         IN smaller \cup { S \cup { p } : S \in smaller, p \in P }

\* the sets of patterns that one content of the buffer may satisfy
MatchSets(rules) == SetsUpTo(PatternsOf(rules), MaxMatch) \ { {} }

\* first match in list order
FirstMatch(rules, M) ==
    CHOOSE i \in DOMAIN rules :
        /\ rules[i].pattern \in M
        /\ \A j \in 1..(i - 1) : rules[j].pattern \notin M

\* d.process(spawn_id): a run of the dialog `name` begins
Run(name) ==
    /\ dlg' = name
    /\ run_state' = current_state
    /\ lastMatch' = NoMatch

\* the caller of d.process has looked at the match: the run is over
DialogDone ==
    /\ dlg' = ""
    /\ run_state' = ""
    /\ lastMatch' = NoMatch

\* The stream's buffer comes to satisfy the patterns M: the engine runs the
\* action of the first rule that matches, and either waits again
\* (loop_continue) or returns the match to its caller.
process ==
    /\ At("process")
    /\ \E M \in MatchSets(DialogRules(dlg)) :
         LET rules == DialogRules(dlg)
             i == FirstMatch(rules, M)
             again == lastMatch.name = dlg /\ lastMatch.index = i
         IN /\ lastMatch' = [name |-> dlg, satisfied |-> M, index |-> i,
                             origin |-> Origin(dlg, i), rule |-> rules[i],
                             times |-> IF ~again THEN 1
                                       ELSE IF lastMatch.times < MaxRepeat
                                       THEN lastMatch.times + 1
                                       ELSE MaxRepeat]
            /\ IF rules[i].loop_continue
               THEN UNCHANGED <<pc, result>>
               ELSE Return
    /\ UNCHANGED <<current_state, sent, dlg, run_state>>
    /\ UNCHANGED <<linevars, callvars, gtvars, dlvars, pollvars>>

\* No rule matched within the timeout.
process_timeout ==
    /\ At("process")
    /\ Raise(DialogTimeout(dlg))
    /\ UNCHANGED <<current_state, sent>>
    /\ UNCHANGED <<linevars, callvars, gtvars, dlgvars, dlvars, pollvars>>

(***************************************************************************)
(* The state machine engine (section 4.2): StateMachine.go_to.             *)
(***************************************************************************)
EndOf(a, w) == IF w = << >> THEN a ELSE w[Len(w)].to

\* breadth-first search over the added paths: the shortest routes from a to b
RECURSIVE BFS(_, _, _, _)
BFS(a, b, frontier, visited) ==
    LET found == { w \in frontier : EndOf(a, w) = b }
        next == UNION { { Append(w, paths[i]) :
                            i \in { j \in DOMAIN paths :
                                      /\ paths[j].from = EndOf(a, w)
                                      /\ paths[j].to \notin visited } } :
                        w \in frontier }
    IN IF found # {} THEN found
       ELSE IF frontier = {} THEN {}
       ELSE BFS(a, b, next, visited \cup { EndOf(a, w) : w \in next })

get_shortest_path(a, b) == BFS(a, b, { << >> }, { a })

go_to ==
    /\ At("go_to")
    /\ hops' = << >>
    /\ IF to_state = "any"
       THEN \* probe the stream to find out which prompt it shows
            /\ sent' = Append(sent, "")
            /\ route' = << >>
            /\ start_state' = current_state
            /\ mark' = Len(sent)
            /\ Goto("detect")
            /\ UNCHANGED to_state
       ELSE IF already_there(current_state, to_state)
       THEN \* already there: go_to returns and its locals are gone
            /\ route' = << >>
            /\ start_state' = ""
            /\ mark' = 0
            /\ to_state' = ""
            /\ Return
            /\ UNCHANGED sent
       ELSE IF get_shortest_path(current_state, to_state) = {}
       THEN /\ route' = << >>
            /\ start_state' = current_state
            /\ mark' = Len(sent)
            /\ Raise(NoPathError(current_state, to_state))
            /\ UNCHANGED <<sent, to_state>>
       ELSE /\ \E r \in get_shortest_path(current_state, to_state) :
                  route' = r
            /\ start_state' = current_state
            /\ mark' = Len(sent)
            /\ Goto("hop")
            /\ UNCHANGED <<sent, to_state>>
    /\ UNCHANGED current_state
    /\ rebooted' = (rebooted /\ to_state # "any")
    /\ UNCHANGED <<change_password_flag, power_bar, power_cycled, steps>>
    /\ UNCHANGED <<callvars, dlgvars, dlvars, pollvars>>

\* go_to('any'): the prompt of one state is recognised, or of none
detect ==
    /\ At("detect")
    /\ \/ /\ \E s \in StateNames : current_state' = s
          /\ to_state' = ""
          /\ start_state' = ""
          /\ mark' = 0
          /\ Return
       \/ /\ Raise(StateDetectionError)
          /\ UNCHANGED <<current_state, to_state, start_state, mark>>
    /\ UNCHANGED <<sent, route, hops>>
    /\ UNCHANGED <<linevars, callvars, dlgvars, dlvars, pollvars>>

\* execute the next Path: send its command and run its dialog
hop ==
    /\ At("hop")
    /\ IF route = << >>
       THEN \* the route is done: go_to returns and its locals are gone
            /\ Return
            /\ hops' = << >>
            /\ mark' = 0
            /\ start_state' = ""
            /\ to_state' = ""
            /\ UNCHANGED <<sent, dlgvars>>
       ELSE /\ sent' = Append(sent, Head(route).command)
            /\ Run("transition")
            /\ Call("process", "arrive")
            /\ UNCHANGED <<hops, mark, start_state, to_state>>
    /\ UNCHANGED <<current_state, route>>
    /\ UNCHANGED <<linevars, callvars, dlvars, pollvars>>

\* the dialog of the Path is over: the Path's to-state is the current state
arrive ==
    /\ At("arrive")
    /\ current_state' = Head(route).to
    /\ hops' = Append(hops, Head(route))
    /\ route' = Tail(route)
    /\ DialogDone
    /\ Goto("hop")
    /\ UNCHANGED <<sent, to_state, start_state, mark>>
    /\ UNCHANGED <<linevars, callvars, dlvars, pollvars>>

\* self.go_to(target) in a workflow, resuming at `resume`; a go_to of the
\* state the line is already in returns at once
GoToThen(target, resume) ==
    IF current_state = target
    THEN Goto(resume) /\ UNCHANGED to_state
    ELSE Call("go_to", resume) /\ to_state' = target

(***************************************************************************)
(* KpLine.wait_for_rommon                                                  *)
(***************************************************************************)
wait_for_rommon ==
    /\ At("wait_for_rommon")
    /\ Run("wait_for_rommon")
    /\ Call("process", "wait_for_rommon_update")
    /\ UNCHANGED <<current_state, sent>>
    /\ UNCHANGED <<linevars, callvars, gtvars, dlvars, pollvars>>

\* a mutant of wait_for_rommon_update: the current state is not updated
wait_for_rommon_no_update ==
    /\ At("wait_for_rommon_update")
    /\ DialogDone
    /\ Return
    /\ UNCHANGED <<current_state, sent>>
    /\ UNCHANGED <<linevars, callvars, gtvars, dlvars, pollvars>>

\* wait_for_rommon: self.sm.update_cur_state('rommon_state')
wait_for_rommon_update ==
    /\ At("wait_for_rommon_update")
    /\ current_state' = "rommon_state"
    /\ DialogDone
    /\ Return
    /\ UNCHANGED sent
    /\ UNCHANGED <<linevars, callvars, gtvars, dlvars, pollvars>>

(***************************************************************************)
(* KpLine.download_ftd_fp2k and the functions it calls.                    *)
(***************************************************************************)
MAX_RETRY_COUNT == 3

\* _wait_till_download_complete: wait_upto=1800
DownloadWaitUpto == 1800

\* a loop that sleeps twice as long
DownloadSleepDoubled == 10 + 10

\* _wait_till_download_complete: time.sleep(10)
DownloadSleep == 10

\* download_ftd_fp2k: for i in range(30)
RetryWaitSteps == 30

\* wait_till: wait_upto=300, sleep_step=10
WaitTillUpto == 300
WaitTillStep == 10

Range(seq) == { seq[i] : i \in DOMAIN seq }

Last(seq) == seq[Len(seq)]

\* fxos_url.split("/")[-1].strip()
bundle_package_name(url) == Last(url.segments)

\* the line that starts the download
DownloadCommand(url) == "download image " \o url.text

\* file_url.startswith("scp"), file_url.startswith("tftp")
DownloadProtocolKnown(url) == url.segments[1] \in { "scp:", "tftp:" }

\* os.path.basename(full_path)
image_name(url) == Last(url.segments)

RECURSIVE Repeat(_, _)
Repeat(line, n) == IF n = 0 THEN << >> ELSE << line >> \o Repeat(line, n - 1)

\* what the State line may show after it showed `last`: a task goes from
\* Pending to Downloading and ends as Downloaded or Failed
NextStatus(last) ==
    IF last = "Downloading" THEN Statuses \ { "Pending" } ELSE Statuses

download_ftd_fp2k ==
    /\ At("download_ftd_fp2k")
    /\ sent' = << >>
    /\ GoToThen("fxos_state", "is_firmware_fp2k_ready")
    /\ UNCHANGED <<current_state, route, start_state, mark, hops>>
    /\ UNCHANGED <<linevars, callvars, dlgvars, dlvars, pollvars>>

\* a check of the firmware version that never finds it installed
firmware_unchecked(shown, version) == TRUE

\* fprm_ver != version
firmware_differs(shown, version) == shown # version

\* is_firmware_fp2k_ready, and what download_ftd_fp2k does with its answer
\* is_firmware_fp2k_ready: self.go_to('fxos_state'), once more
is_firmware_fp2k_ready ==
    /\ At("is_firmware_fp2k_ready")
    /\ Call("go_to", "is_firmware_fp2k_ready_cmds")
    /\ to_state' = "fxos_state"
    /\ UNCHANGED <<current_state, sent, route, start_state, mark, hops>>
    /\ UNCHANGED <<linevars, callvars, dlgvars, dlvars, pollvars>>

\* is_firmware_fp2k_ready: the commands and the comparison
is_firmware_fp2k_ready_cmds ==
    /\ At("is_firmware_fp2k_ready_cmds")
    /\ sent' = << "top", "scope system",
                  "show firmware package-version | grep Package-Vers" >>
    /\ \E shown \in Versions :
         /\ fprm_ver' = shown
         /\ IF firmware_differs(shown, args.ftd_version)
            THEN Goto("get_packages")
            ELSE Return
    /\ UNCHANGED <<current_state, packages, retry_count, response>>
    /\ UNCHANGED <<linevars, callvars, gtvars, dlgvars, pollvars>>

\* a check of the package list that never finds the bundle package
never_downloaded(name, shown) == FALSE

\* bundle_package_name in [package.name for package in packages]
already_downloaded(name, shown) == name \in shown

\* get_packages, and what download_ftd_fp2k does with its answer
get_packages ==
    /\ At("get_packages")
    /\ sent' = sent \o << "top", "scope firmware", "top", "scope firmware" >>
    /\ \E shown \in PackageLists :
         /\ packages' = shown
         /\ IF already_downloaded(bundle_package_name(args.fxos_url), shown)
            THEN Return /\ UNCHANGED retry_count
            ELSE Goto("download_attempt") /\ retry_count' = MAX_RETRY_COUNT
    /\ UNCHANGED <<current_state, fprm_ver, response>>
    /\ UNCHANGED <<linevars, callvars, gtvars, dlgvars, pollvars>>

\* one pass of the body of `while retry_count > 0`, up to the status
download_attempt ==
    /\ At("download_attempt")
    /\ IF retry_count > 0
       THEN /\ sent' = sent \o << "top", "scope firmware",
                                  DownloadCommand(args.fxos_url) >>
            /\ Run("download")
            /\ CallBoth("process", "wait_till_download_complete",
                        "download_status")
       ELSE Return /\ UNCHANGED <<sent, dlgvars>>
    /\ UNCHANGED current_state
    /\ UNCHANGED <<linevars, callvars, gtvars, dlvars, pollvars>>

\* _wait_till_download_complete, up to its loop
wait_till_download_complete ==
    /\ At("wait_till_download_complete")
    /\ DialogDone
    /\ IF DownloadProtocolKnown(args.fxos_url)
       THEN Goto("download_poll")
       ELSE Raise(RuntimeError("Incorrect file url download protocol",
                               "", 0))
    /\ wait_upto' = DownloadWaitUpto
    /\ status' = ""
    /\ UNCHANGED apps
    /\ clock' = 0
    /\ elapsed_time' = 0
    /\ polls' = 0
    /\ slept' = 0
    /\ UNCHANGED <<current_state, sent>>
    /\ UNCHANGED <<linevars, callvars, gtvars, dlvars>>

\* the elapsed_time after a poll that showed `shown` at time `now`
elapsed_after(shown, now, before) ==
    IF shown = "Downloading" THEN now ELSE before

\* one pass of the loop of _wait_till_download_complete: the test of the
\* while, the sleep, the status check and what follows from it
download_poll ==
    /\ At("download_poll")
    /\ IF elapsed_time < wait_upto
       THEN /\ clock < MaxClock
            /\ clock' = clock + DownloadSleep
            /\ slept' = slept + DownloadSleep
            /\ polls' = polls + 1
            /\ \E shown \in NextStatus(status) :
                 /\ status' = shown
                 /\ UNCHANGED apps
                 /\ elapsed_time' = elapsed_after(shown, clock', elapsed_time)
                 /\ IF shown \in { "Downloaded", "Failed" }
                    THEN Return
                    ELSE UNCHANGED <<pc, result>>
       ELSE /\ Raise(RuntimeError("download took too long",
                                  image_name(args.fxos_url), 0))
            /\ UNCHANGED <<status, apps, clock, elapsed_time, polls, slept>>
    /\ UNCHANGED <<current_state, sent, wait_upto>>
    /\ UNCHANGED <<linevars, callvars, gtvars, dlgvars, dlvars>>

\* a retry loop that does not count its attempts
attempts_not_counted(n) == n

\* retry_count -= 1
attempts_left(n) == n - 1

\* the locals of a polling loop are gone
PollDone ==
    /\ wait_upto' = 0
    /\ status' = ""
    /\ UNCHANGED apps
    /\ clock' = 0
    /\ elapsed_time' = 0
    /\ polls' = 0
    /\ slept' = 0

\* download_ftd_fp2k after _wait_till_download_complete returned
download_status ==
    /\ At("download_status")
    /\ IF status = "Failed"
       THEN /\ retry_count' = attempts_left(retry_count)
            /\ IF retry_count' = 0
               THEN /\ Raise(RuntimeError("Download failed after tries",
                                          args.fxos_url.text,
                                          MAX_RETRY_COUNT))
                    /\ UNCHANGED sent
               ELSE /\ sent' = sent \o Repeat("^C", RetryWaitSteps)
                    /\ Goto("download_attempt")
       ELSE IF status = "Downloaded"
       THEN Return /\ retry_count' = 0 /\ UNCHANGED sent
       ELSE /\ sent' = sent \o Repeat("^C", RetryWaitSteps)
            /\ Goto("download_attempt")
            /\ UNCHANGED retry_count
    /\ PollDone
    /\ UNCHANGED <<current_state, fprm_ver, packages, response>>
    /\ UNCHANGED <<linevars, callvars, gtvars, dlgvars>>

(***************************************************************************)
(* KpLine.wait_till                                                        *)
(***************************************************************************)
wait_till ==
    /\ At("wait_till")
    /\ wait_upto' = args.wait_upto
    /\ status' = ""
    /\ UNCHANGED apps
    /\ clock' = 0
    /\ elapsed_time' = 0
    /\ polls' = 0
    /\ slept' = 0
    /\ Goto("wait_till_poll")
    /\ UNCHANGED <<current_state, sent>>
    /\ UNCHANGED <<linevars, callvars, gtvars, dlgvars, dlvars>>

\* one pass of the loop of wait_till: the test of the while, the call of
\* stop_func and, when it is not yet true, the sleep
wait_till_poll ==
    /\ At("wait_till_poll")
    /\ IF elapsed_time < wait_upto
       THEN /\ polls' = polls + 1
            /\ \E answer \in { "True", "False" } :
                 /\ status' = answer
                 /\ UNCHANGED apps
                 /\ IF answer = "True"
                    THEN /\ Return
                         /\ UNCHANGED <<clock, elapsed_time, slept>>
                    ELSE /\ clock' = clock + args.sleep_step
                         /\ slept' = slept + args.sleep_step
                         /\ elapsed_time' = clock'
                         /\ UNCHANGED <<pc, result>>
       ELSE /\ Raise(RuntimeError("took too long to return True",
                                  "stop_func(stop_func_args)", 0))
            /\ UNCHANGED <<status, apps, clock, elapsed_time, polls, slept>>
    /\ UNCHANGED <<current_state, sent, wait_upto>>
    /\ UNCHANGED <<linevars, callvars, gtvars, dlgvars, dlvars>>

(***************************************************************************)
(* The rommon workflows of KpLine.                                         *)
(***************************************************************************)
\* a mutant of KpInitCmds: the commands in another order
KpInitCmds_reordered ==
    << "terminal length 0", "top", "terminal width 511" >>

\* KpInitCmds
KpInitCmds == << "top", "terminal length 0", "terminal width 511" >>

\* rommon_configure: for i in range(20)
PingTries == 20

\* pc' for a function that ends by calling a list of functions in turn
TailCalls(callees) == pc' = callees \o Tail(pc) /\ UNCHANGED result

\* a mutant of InitTerminalEntry: determine_state is taken as False
InitTerminalEntry_undetermined(determine_state) == "init_terminal_fxos"

\* init_terminal(determine_state=True): "if determine_state: go_to('any')"
InitTerminalEntry(determine_state) ==
    IF determine_state THEN "init_terminal" ELSE "init_terminal_fxos"

\* init_terminal: self.go_to('any')
init_terminal ==
    /\ At("init_terminal")
    /\ Call("go_to", "init_terminal_fxos")
    /\ to_state' = "any"
    /\ sent' = << >>
    /\ UNCHANGED <<current_state, route, start_state, mark, hops>>
    /\ UNCHANGED <<linevars, callvars, dlgvars, dlvars, pollvars>>

\* init_terminal: self.go_to('fxos_state')
init_terminal_fxos ==
    /\ At("init_terminal_fxos")
    /\ GoToThen("fxos_state", "init_terminal_cmds")
    /\ UNCHANGED <<current_state, sent, route, start_state, mark, hops>>
    /\ UNCHANGED <<linevars, callvars, dlgvars, dlvars, pollvars>>

\* init_terminal: the commands of KpInitCmds
init_terminal_cmds ==
    /\ At("init_terminal_cmds")
    /\ sent' = sent \o KpInitCmds
    /\ Return
    /\ UNCHANGED current_state
    /\ UNCHANGED <<linevars, callvars, gtvars, dlgvars, dlvars, pollvars>>

\* __change_password: the dialog
change_password ==
    /\ At("change_password")
    /\ Run("change_password_dialog")
    /\ Call("process", "change_password_done")
    /\ UNCHANGED <<current_state, sent>>
    /\ UNCHANGED <<linevars, callvars, gtvars, dlvars, pollvars>>

\* 'updated successfully' in output.match_output
password_updated(match) ==
    "Your password (was|has been) updated successfully" \in match.satisfied

\* __change_password: after the dialog
change_password_done ==
    /\ At("change_password_done")
    /\ change_password_flag' =
           IF password_updated(lastMatch) THEN TRUE ELSE change_password_flag
    /\ DialogDone
    /\ Return
    /\ UNCHANGED <<current_state, sent>>
    /\ UNCHANGED <<power_bar, power_cycled, steps, rebooted>>
    /\ UNCHANGED <<callvars, gtvars, dlvars, pollvars>>

\* format_goto_rommon
format_goto_rommon ==
    /\ At("format_goto_rommon")
    /\ sent' = << "connect local-mgmt", "format everything" >>
    /\ Run("format_d")
    /\ TailCalls(<< "process", "wait_for_rommon" >>)
    /\ UNCHANGED current_state
    /\ UNCHANGED <<linevars, callvars, gtvars, dlvars, pollvars>>

\* Python's "not x" for a string or None
Falsy(x) == x \in { None, "" }

\* power_cycle: "If the existing server/port is not valid and the
\* server/port argument is not valid, return None"
power_bar_invalid(stored, given) ==
    \/ Falsy(stored.server) /\ Falsy(given.server)
    \/ given.server = ""
    \/ Falsy(stored.port) /\ Falsy(given.port)
    \/ given.port = ""

\* a mutant of power_bar_replaced: the arguments always replace what is stored
power_bar_replaced_always(given) == TRUE

\* power_cycle: "if power_bar_server or power_bar_port"
power_bar_replaced(given) == ~Falsy(given.server) \/ ~Falsy(given.port)

\* power_cycle
power_cycle ==
    /\ At("power_cycle")
    /\ IF power_bar = NoPowerBar
       THEN \* self.power_bar_server was never assigned
            /\ Raise(Err("AttributeError", "power_bar_server", "", 0))
            /\ UNCHANGED <<power_bar, power_cycled, rebooted>>
       ELSE IF power_bar_invalid(power_bar, args.power_bar)
       THEN \* return None
            /\ Return
            /\ UNCHANGED <<power_bar, power_cycled, rebooted>>
       ELSE /\ power_bar' = IF power_bar_replaced(args.power_bar)
                            THEN args.power_bar ELSE power_bar
            /\ power_cycled' = Append(power_cycled, power_bar')
            /\ rebooted' = TRUE
            /\ IF args.wait_until_device_is_on
               THEN Goto("wait_until_device_on")
               ELSE Return
    /\ UNCHANGED <<current_state, sent>>
    /\ UNCHANGED <<change_password_flag, steps>>
    /\ UNCHANGED <<callvars, gtvars, dlgvars, dlvars, pollvars>>

\* wait_until_device_on: the dialog
wait_until_device_on ==
    /\ At("wait_until_device_on")
    /\ Run("device_on_d")
    /\ Call("process", "wait_until_device_on_done")
    /\ UNCHANGED <<current_state, sent>>
    /\ UNCHANGED <<linevars, callvars, gtvars, dlvars, pollvars>>

\* wait_until_device_on: time.sleep(120) and self.init_terminal()
wait_until_device_on_done ==
    /\ At("wait_until_device_on_done")
    /\ DialogDone
    /\ TailCalls(<< InitTerminalEntry(TRUE) >>)
    /\ UNCHANGED <<current_state, sent>>
    /\ UNCHANGED <<linevars, callvars, gtvars, dlvars, pollvars>>

\* power_cycle with wait_until_device_is_on=False and the other arguments
\* left at None: the stored power bar info is used if it is valid, and
\* nothing is replaced
power_cycle_stored(bar, log) ==
    IF power_bar_invalid(bar, [server |-> None, port |-> None])
    THEN log
    ELSE Append(log, bar)

\* a mutant of power_cycle_goto_rommon: the state is not tested
power_cycle_goto_rommon_untested ==
    /\ At("power_cycle_goto_rommon")
    /\ IF power_bar = NoPowerBar
       THEN /\ Raise(Err("AttributeError", "power_bar_server", "", 0))
            /\ UNCHANGED power_cycled
       ELSE /\ power_cycled' = power_cycle_stored(power_bar, power_cycled)
            /\ TailCalls(<< "wait_for_rommon" >>)
    /\ UNCHANGED <<current_state, sent>>
    /\ UNCHANGED <<change_password_flag, power_bar, steps, rebooted>>
    /\ UNCHANGED <<callvars, gtvars, dlgvars, dlvars, pollvars>>

\* power_cycle_goto_rommon: nothing to do in rommon_state; otherwise
\* power_cycle(wait_until_device_is_on=False), whose result is not looked
\* at, and wait_for_rommon
power_cycle_goto_rommon ==
    /\ At("power_cycle_goto_rommon")
    /\ IF current_state = "rommon_state"
       THEN Return /\ UNCHANGED power_cycled
       ELSE IF power_bar = NoPowerBar
       THEN \* power_cycle: self.power_bar_server was never assigned
            /\ Raise(Err("AttributeError", "power_bar_server", "", 0))
            /\ UNCHANGED power_cycled
       ELSE /\ power_cycled' = power_cycle_stored(power_bar, power_cycled)
            /\ TailCalls(<< "wait_for_rommon" >>)
    /\ UNCHANGED <<current_state, sent>>
    /\ UNCHANGED <<change_password_flag, power_bar, steps, rebooted>>
    /\ UNCHANGED <<callvars, gtvars, dlgvars, dlvars, pollvars>>

\* rommon_factory_reset_and_format: get to rommon first
rommon_factory_reset_and_format ==
    /\ At("rommon_factory_reset_and_format")
    /\ IF current_state # "rommon_state"
       THEN /\ TailCalls(<< "go_to", "power_cycle_goto_rommon",
                            "rommon_factory_reset" >>)
            /\ to_state' = "any"
       ELSE Goto("rommon_factory_reset") /\ UNCHANGED to_state
    /\ sent' = << >>
    /\ UNCHANGED <<current_state, route, start_state, mark, hops>>
    /\ UNCHANGED <<linevars, callvars, dlgvars, dlvars, pollvars>>

\* rommon_factory_reset_and_format: 'set' and the factory reset
rommon_factory_reset ==
    /\ At("rommon_factory_reset")
    /\ sent' = Append(sent, "set")
    /\ Run("factory_reset_d1")
    /\ Call("process", "rommon_boot")
    /\ UNCHANGED current_state
    /\ UNCHANGED <<linevars, callvars, gtvars, dlvars, pollvars>>

\* rommon_factory_reset_and_format: 'boot'
rommon_boot ==
    /\ At("rommon_boot")
    /\ sent' = Append(sent, "boot")
    /\ Run("factory_reset_d2")
    /\ Call("process", "rommon_booted")
    /\ UNCHANGED current_state
    /\ UNCHANGED <<linevars, callvars, gtvars, dlvars, pollvars>>

\* 'boot: cannot determine first file name on device' not in
\* res.match_output
boot_disk_found(match) ==
    "boot: cannot determine first file name on device" \notin match.satisfied

\* rommon_factory_reset_and_format: after the boot
rommon_booted ==
    /\ At("rommon_booted")
    /\ IF boot_disk_found(lastMatch)
       THEN TailCalls(<< "change_password", InitTerminalEntry(TRUE),
                         "format_goto_rommon" >>)
       ELSE Return
    /\ DialogDone
    /\ UNCHANGED <<current_state, sent>>
    /\ rebooted' = (rebooted \/ boot_disk_found(lastMatch))
    /\ UNCHANGED <<change_password_flag, power_bar, power_cycled, steps>>
    /\ UNCHANGED <<callvars, gtvars, dlvars, pollvars>>

\* install_rommon_build_fp2k
install_rommon_build_fp2k ==
    /\ At("install_rommon_build_fp2k")
    /\ TailCalls(<< IF current_state # "rommon_state"
                    THEN "format_goto_rommon"
                    ELSE "rommon_factory_reset_and_format",
                    "rommon_configure", "rommon_tftp_download",
                    InitTerminalEntry(TRUE) >>)
    /\ UNCHANGED <<current_state, sent>>
    /\ UNCHANGED <<linevars, callvars, gtvars, dlgvars, dlvars, pollvars>>

\* rommon_configure: es_list
es_list ==
    << "address uut_ip", "netmask uut_netmask", "gateway uut_gateway",
       "server tftp_server", "image rommon_file", "sync" >>

\* rommon_configure: expect_and_sendline sends the lines one by one and
\* expects 'rommon' after each
rommon_configure ==
    /\ At("rommon_configure")
    /\ \E k \in 1..Len(es_list), seen \in BOOLEAN :
         /\ sent' = SubSeq(es_list, 1, k)
         /\ IF seen /\ k = Len(es_list)
            THEN Goto("rommon_ping")
            ELSE Raise(Err("TimeoutError", "expect", es_list[k], 0))
    /\ polls' = 0
    /\ UNCHANGED <<current_state, wait_upto, status, apps, clock, elapsed_time,
                   slept>>
    /\ UNCHANGED <<linevars, callvars, gtvars, dlgvars, dlvars>>

\* rommon_configure: one pass of the ping loop
rommon_ping ==
    /\ At("rommon_ping")
    /\ IF polls < PingTries
       THEN /\ sent' = Append(sent, "ping tftp_server")
            /\ \/ Return /\ polls' = 0
               \/ polls' = polls + 1 /\ UNCHANGED <<pc, result>>
       ELSE /\ Raise(RuntimeError("Ping to server not working",
                                  "tftp_server", 0))
            /\ polls' = 0
            /\ UNCHANGED sent
    /\ UNCHANGED <<current_state, wait_upto, status, apps, clock, elapsed_time,
                   slept>>
    /\ UNCHANGED <<linevars, callvars, gtvars, dlgvars, dlvars>>

\* rommon_tftp_download: the dialog, in its try block
rommon_tftp_download ==
    /\ At("rommon_tftp_download")
    /\ Run("tftp_d")
    /\ Call("process", "rommon_tftp_done")
    /\ sent' = << >>
    /\ UNCHANGED current_state
    /\ UNCHANGED <<linevars, callvars, gtvars, dlvars, pollvars>>

\* rommon_tftp_download: the change of the password
rommon_tftp_done ==
    /\ At("rommon_tftp_done")
    /\ TailCalls(<< "change_password", "rommon_tftp_enter" >>)
    /\ DialogDone
    /\ UNCHANGED <<current_state, sent>>
    /\ rebooted' = TRUE
    /\ UNCHANGED <<change_password_flag, power_bar, power_cycled, steps>>
    /\ UNCHANGED <<callvars, gtvars, dlvars, pollvars>>

\* rommon_tftp_download: self.spawn_id.sendline()
rommon_tftp_enter ==
    /\ At("rommon_tftp_enter")
    /\ sent' = Append(sent, "")
    /\ Return
    /\ UNCHANGED current_state
    /\ UNCHANGED <<linevars, callvars, gtvars, dlgvars, dlvars, pollvars>>

(***************************************************************************)
(* KpLine.upgrade_bundle_package_fp2k, configure_manager, validate_version *)
(***************************************************************************)
\* "install security-pack version {}".format(
\*     re.search(r'[\d.]+-[\d]+', ftd_version).group())
InstallCommand(ftd_version) == "install security-pack version " \o ftd_version

upgrade_bundle_package_fp2k ==
    /\ At("upgrade_bundle_package_fp2k")
    /\ sent' = << >>
    /\ GoToThen("fxos_state", "upgrade_install")
    /\ UNCHANGED <<current_state, route, start_state, mark, hops>>
    /\ UNCHANGED <<linevars, callvars, dlgvars, dlvars, pollvars>>

\* upgrade_bundle_package_fp2k: the install command and d1
upgrade_install ==
    /\ At("upgrade_install")
    /\ sent' = sent \o << "top", "scope firmware", "scope auto-install",
                          InstallCommand(args.ftd_version) >>
    /\ Run("upgrade_d1")
    /\ Call("process", "upgrade_installed")
    /\ UNCHANGED current_state
    /\ UNCHANGED <<linevars, callvars, gtvars, dlvars, pollvars>>

\* a mutant of invalid_software_version: the response is not looked at
invalid_software_version_ignored(match) == FALSE

\* 'Invalid Software Version' in resp.match_output
invalid_software_version(match) ==
    "Invalid Software Version" \in match.satisfied

\* upgrade_bundle_package_fp2k: after d1, the ENTER and d2
upgrade_installed ==
    /\ At("upgrade_installed")
    /\ IF invalid_software_version(lastMatch)
       THEN /\ Raise(RuntimeError("Invalid Software Version", "", 0))
            /\ DialogDone
            /\ UNCHANGED sent
       ELSE /\ sent' = Append(sent, "")
            /\ Run("upgrade_d2")
            /\ Call("process", "upgrade_dialogs")
    /\ UNCHANGED current_state
    /\ rebooted' = (rebooted \/ ~invalid_software_version(lastMatch))
    /\ UNCHANGED <<change_password_flag, power_bar, power_cycled, steps>>
    /\ UNCHANGED <<callvars, gtvars, dlvars, pollvars>>

\* upgrade_bundle_package_fp2k: d3, d4, d5 and d6, one after the other
upgrade_dialogs ==
    /\ At("upgrade_dialogs")
    /\ CASE dlg = "upgrade_d2" ->
              /\ Run("upgrade_d3")
              /\ Call("process", "upgrade_dialogs")
              /\ UNCHANGED args
         [] dlg = "upgrade_d3" ->
              /\ Run("upgrade_d4")
              /\ Call("process", "upgrade_dialogs")
              /\ UNCHANGED args
         [] dlg = "upgrade_d4" ->
              /\ \E ip6 \in Choices(args.uut_ip6, Ip6s) :
                   args' = [args EXCEPT !.uut_ip6 = ip6]
              /\ Run("upgrade_d5")
              /\ Call("process", "upgrade_dialogs")
         [] dlg = "upgrade_d5" ->
              /\ \E mode \in Choices(args.mode, Modes) :
                   args' = [args EXCEPT !.mode = mode]
              /\ Run("upgrade_d6")
              /\ Call("process", "upgrade_dialogs")
         [] OTHER ->
              /\ Return
              /\ DialogDone
              /\ UNCHANGED args
    /\ UNCHANGED <<current_state, sent, op, entry_state, lines, active,
                   metrics, devvars>>
    /\ UNCHANGED <<linevars, gtvars, dlvars, pollvars>>

\* configure_manager
configure_manager ==
    /\ At("configure_manager")
    /\ sent' = << "configure manager add " \o args.manager >>
    /\ \/ Return
       \/ Raise(RuntimeError("configure manager failed", args.manager, 0))
    /\ UNCHANGED current_state
    /\ UNCHANGED <<linevars, callvars, gtvars, dlgvars, dlvars, pollvars>>

\* the characters of the texts that are compared
Chars(text) ==
    CASE text = "6.2.1-1088" ->
             << "6", ".", "2", ".", "1", "-", "1", "0", "8", "8" >>
      [] text = "6.2.2-81" -> << "6", ".", "2", ".", "2", "-", "8", "1" >>
      [] text = "6.2.1" -> << "6", ".", "2", ".", "1" >>
      [] text = "6.2.2" -> << "6", ".", "2", ".", "2" >>
      [] text = "6.2" -> << "6", ".", "2" >>
      [] text = "1088" -> << "1", "0", "8", "8" >>
      [] text = "108" -> << "1", "0", "8" >>
      [] text = "81" -> << "8", "1" >>
      [] OTHER -> << >>

\* Python's "a in b" for two strings
IsSubstring(a, b) ==
    \E i \in 0 .. (Len(b) - Len(a)) : SubSeq(b, i + 1, i + Len(a)) = a

\* what 'show version' prints: "... Version 6.2.1 (Build 1088)"
ShowVersion(version, build) == [version |-> version, build |-> build]

NoResponse == ShowVersion("", "")

\* the outputs of 'show version' that the device may give
Responses ==
    { ShowVersion("6.2.1", "1088"), ShowVersion("6.2.2", "81"),
      ShowVersion("6.2.1", "108"), ShowVersion("6.2", "1088") }

\* a mutant of version_matches: only the version is compared
version_matches_only(shown, ftd_version) ==
    IsSubstring(Chars(shown.version), Chars(ftd_version))

\* build in ftd_version and version in ftd_version
version_matches(shown, ftd_version) ==
    /\ IsSubstring(Chars(shown.build), Chars(ftd_version))
    /\ IsSubstring(Chars(shown.version), Chars(ftd_version))

\* validate_version: self.execute('show version', 30)
validate_version ==
    /\ At("validate_version")
    /\ sent' = Append(sent, "show version")
    /\ \E shown \in Responses : response' = shown
    /\ Goto("validate_version_check")
    /\ UNCHANGED <<current_state, fprm_ver, packages, retry_count>>
    /\ UNCHANGED <<linevars, callvars, gtvars, dlgvars, pollvars>>

\* a mutant of validate_version_check: the line is in fxos_state before the
\* versions are compared
validate_version_check_in_fxos ==
    /\ At("validate_version_check")
    /\ current_state' = "fxos_state"
    /\ IF version_matches(response, args.ftd_version)
       THEN Return
       ELSE Raise(RuntimeError("does not match ftd package image",
                               response, 0))
    /\ response' = NoResponse
    /\ UNCHANGED <<sent, fprm_ver, packages, retry_count>>
    /\ UNCHANGED <<linevars, callvars, gtvars, dlgvars, pollvars>>

\* validate_version: the comparison and self.go_to('fxos_state')
validate_version_check ==
    /\ At("validate_version_check")
    /\ IF version_matches(response, args.ftd_version)
       THEN IF current_state = "fxos_state"
            THEN Return /\ UNCHANGED to_state
            ELSE TailCalls(<< "go_to" >>) /\ to_state' = "fxos_state"
       ELSE /\ Raise(RuntimeError("does not match ftd package image",
                                  response, 0))
            /\ UNCHANGED to_state
    /\ response' = NoResponse
    /\ UNCHANGED <<current_state, sent, route, start_state, mark, hops>>
    /\ UNCHANGED <<fprm_ver, packages, retry_count>>
    /\ UNCHANGED <<linevars, callvars, dlgvars, pollvars>>

(***************************************************************************)
(* KpLine.baseline_fp2k_ftd                                                *)
(***************************************************************************)
\* execute_lines(cmd_lines_initial), the lines that are no show commands
cmd_lines_initial ==
    << "top", "scope system", "scope services", "disable dhcp-server",
       "create dns dns_server", "set domain-name domain", "scope fabric a",
       "set out-of-band static ip uut_ip netmask uut_netmask gw uut_gateway",
       "commit-buffer", "top", "scope system", "scope services", "top" >>

\* a mutant of manager_configured: the mode is not looked at
manager_configured_any_mode(a) == a.manager # None

\* baseline_fp2k_ftd: "if manager is not None and mode != 'local'"
manager_configured(a) == a.manager # None /\ a.mode # "local"

\* the step of baseline_fp2k_ftd that follows the steps `done`, "" when
\* there is none
NextStep(done, a) ==
    IF done = << >>
    THEN IF a.power_cycle_flag THEN "power_cycle_goto_rommon"
         ELSE "install_rommon_build_fp2k"
    ELSE CASE Last(done) = "power_cycle_goto_rommon" ->
                  "rommon_factory_reset_and_format"
           [] Last(done) = "rommon_factory_reset_and_format" ->
                  "install_rommon_build_fp2k"
           [] Last(done) = "install_rommon_build_fp2k" -> "execute_lines"
           [] Last(done) = "execute_lines" -> "download_ftd_fp2k"
           [] Last(done) = "download_ftd_fp2k" ->
                  "upgrade_bundle_package_fp2k"
           [] Last(done) = "upgrade_bundle_package_fp2k" -> "go_to any"
           [] Last(done) = "go_to any" -> "go_to fireos_state"
           [] Last(done) = "go_to fireos_state" ->
                  IF manager_configured(a)
                  THEN "configure_manager"
                  ELSE "validate_version"
           [] Last(done) = "configure_manager" -> "validate_version"
           [] OTHER -> ""

\* baseline_fp2k_ftd: the previous step has returned, the next one begins;
\* the log of sent lines starts anew with each step.  The first statement
\* of the method publishes its counter.
baseline_fp2k_ftd ==
    /\ At("baseline_fp2k_ftd")
    /\ \E manager \in IF steps # << >> /\ Last(steps) = "go_to fireos_state"
                      THEN Choices(args.manager, Managers)
                      ELSE { args.manager } :
         LET a == [args EXCEPT !.manager = manager]
             step == NextStep(steps, a)
         IN /\ args' = a
            /\ IF step = ""
               THEN Return /\ UNCHANGED <<steps, sent, to_state>>
               ELSE /\ steps' = Append(steps, step)
                    /\ CASE step = "execute_lines" ->
                              /\ sent' = cmd_lines_initial
                              /\ UNCHANGED <<pc, result, to_state>>
                         [] step = "go_to any" ->
                              /\ sent' = << >>
                              /\ Call("go_to", "baseline_fp2k_ftd")
                              /\ to_state' = "any"
                         [] step = "go_to fireos_state" ->
                              /\ sent' = << >>
                              /\ Call("go_to", "baseline_fp2k_ftd")
                              /\ to_state' = "fireos_state"
                         [] OTHER ->
                              /\ sent' = << >>
                              /\ Call(step, "baseline_fp2k_ftd")
                              /\ UNCHANGED to_state
    /\ metrics' = IF steps = << >>
                  THEN Append(metrics, "device.kp.baseline")
                  ELSE metrics
    /\ UNCHANGED devvars
    /\ UNCHANGED <<current_state, op, entry_state, lines, active>>
    /\ UNCHANGED <<route, start_state, mark, hops>>
    /\ UNCHANGED <<change_password_flag, power_bar, power_cycled, rebooted>>
    /\ UNCHANGED <<dlgvars, dlvars, pollvars>>

(***************************************************************************)
(* KpLine.__init__, for a line of Kp.ssh_console, Kp.poll_ssh_connection   *)
(* (chassis_line=True) or Kp.ssh_vty (chassis_line=False).                 *)
(***************************************************************************)
\* the power bar arguments of Kp.__init__ when the caller gives none:
\* power_bar_server='', power_bar_port='', power_bar_user='admn',
\* power_bar_pwd='admn'
KpConstants_power_bar == PowerBar("", "")

\* super().__init__: the constructor of the base line detects the state
KpLine ==
    /\ At("KpLine")
    /\ Call("go_to", "KpLine_detected")
    /\ to_state' = "any"
    /\ UNCHANGED <<current_state, sent, route, start_state, mark, hops>>
    /\ UNCHANGED <<linevars, callvars, dlgvars, dlvars, pollvars>>

\* the detection failed on a console line: self.wait_for_rommon(timeout=300)
KpLine_rommon ==
    /\ At("KpLine_rommon")
    /\ Call("wait_for_rommon", "KpLine_in_rommon")
    /\ UNCHANGED <<current_state, sent>>
    /\ UNCHANGED <<linevars, callvars, gtvars, dlgvars, dlvars, pollvars>>

\* the state is known: a console line that is not in rommon gets
\* init_terminal(determine_state=False)
KpLine_detected ==
    /\ At("KpLine_detected") \/ At("KpLine_in_rommon")
    /\ IF args.chassis_line /\ current_state # "rommon_state"
       THEN Call(InitTerminalEntry(FALSE), "KpLine_done")
       ELSE Goto("KpLine_done")
    /\ UNCHANGED <<current_state, sent>>
    /\ UNCHANGED <<linevars, callvars, gtvars, dlgvars, dlvars, pollvars>>

\* the default power bar info is set and the caller has its line
KpLine_done ==
    /\ At("KpLine_done")
    /\ power_bar' = KpConstants
    /\ lines' = Append(lines, Line(args.chassis_line, TRUE,
                                   change_password_flag, power_bar'))
    /\ Return
    /\ UNCHANGED <<current_state, sent, op, entry_state, args, active,
                   metrics, devvars>>
    /\ UNCHANGED <<change_password_flag, power_cycled, steps, rebooted>>
    /\ UNCHANGED <<gtvars, dlgvars, dlvars, pollvars>>

\* neither the detection nor the drop to rommon worked: the constructor
\* returns, and the caller has a line whose state nobody determined
KpLine_alive ==
    /\ At("KpLine_alive")
    /\ lines' = Append(lines, Line(args.chassis_line, FALSE,
                                   change_password_flag, power_bar))
    /\ Return
    /\ UNCHANGED <<current_state, sent, op, entry_state, args, active,
                   metrics, devvars>>
    /\ UNCHANGED <<linevars, gtvars, dlgvars, dlvars, pollvars>>

(***************************************************************************)
(* The caller of the line: with no operation running, it starts one.       *)
(***************************************************************************)
\* the locals of the operation that ended are gone when the next one begins
Reset(label, a) ==
    /\ pc = << >>
    /\ pc' = << label >>
    /\ op' = label
    /\ entry_state' = current_state
    /\ args' = a
    /\ metrics' = << >>
    /\ UNCHANGED devvars
    /\ result' = Running
    /\ sent' = << >>
    /\ route' = << >>
    /\ start_state' = ""
    /\ mark' = 0
    /\ hops' = << >>
    /\ dlg' = ""
    /\ run_state' = current_state
    /\ lastMatch' = NoMatch
    /\ fprm_ver' = ""
    /\ packages' = {}
    /\ retry_count' = 0
    /\ response' = NoResponse
    /\ wait_upto' = 0
    /\ status' = ""
    /\ apps' = << >>
    /\ clock' = 0
    /\ elapsed_time' = 0
    /\ polls' = 0
    /\ slept' = 0
    /\ power_cycled' = << >>
    /\ steps' = << >>
    /\ rebooted' = FALSE
    /\ UNCHANGED current_state

\* an operation of the line the caller works with
Start(label, a) ==
    /\ active \in DOMAIN lines
    /\ Reset(label, a)
    /\ UNCHANGED <<change_password_flag, power_bar, lines, active>>

\* the lines at rest, the attributes of the line in use put back in it
Stash ==
    IF active \in DOMAIN lines
    THEN [lines EXCEPT ![active].change_password_flag = change_password_flag,
                       ![active].power_bar = power_bar]
    ELSE lines

\* most lines the caller asks the Kp object for
MaxLines == 2

\* Kp.ssh_console, Kp.ssh_vty: a new KpLine on
\* self.sm, which the caller works with from then on
new_line ==
    \E chassis_line \in BOOLEAN :
        /\ Len(lines) < MaxLines
        /\ Reset("KpLine", [NoArgs EXCEPT !.chassis_line = chassis_line])
        /\ to_state' = ""
        /\ lines' = Stash
        /\ active' = Len(lines) + 1
        /\ change_password_flag' = FALSE
        /\ power_bar' = NoPowerBar

\* the caller turns to another of its lines
use_line ==
    \E i \in DOMAIN lines :
        /\ pc = << >>
        /\ i # active
        /\ lines' = Stash
        /\ active' = i
        /\ change_password_flag' = lines[i].change_password_flag
        /\ power_bar' = lines[i].power_bar
        /\ UNCHANGED <<current_state, pc, result, sent, op, entry_state, args,
                       metrics, devvars>>
        /\ UNCHANGED <<power_cycled, steps, rebooted>>
        /\ UNCHANGED <<gtvars, dlgvars, dlvars, pollvars>>

call_go_to ==
    \E s \in StateNames \cup { "any" } :
        /\ Start("go_to", NoArgs)
        /\ to_state' = s

call_wait_for_rommon ==
    /\ Start("wait_for_rommon", NoArgs)
    /\ to_state' = ""

call_download_ftd_fp2k ==
    \E url \in Urls :
        /\ Start("download_ftd_fp2k",
                 [NoArgs EXCEPT !.fxos_url = url,
                                !.ftd_version = "6.2.1-1088"])
        /\ to_state' = ""

\* the states of the device that an upgrade is started in
UpgradeEntry == { "fxos_state", "fireos_state" }

call_upgrade_bundle_package_fp2k ==
    \E version \in Versions :
        /\ current_state \in UpgradeEntry
        /\ Start("upgrade_bundle_package_fp2k",
                 [NoArgs EXCEPT !.ftd_version = version])
        /\ to_state' = ""

\* the caller sets the power bar info of the line
set_power_bar ==
    /\ pc = << >>
    /\ power_bar' = PowerBar("pdu", "3")
    /\ UNCHANGED <<current_state, pc, result, sent>>
    /\ UNCHANGED <<change_password_flag, power_cycled, steps, rebooted>>
    /\ UNCHANGED <<callvars, gtvars, dlgvars, dlvars, pollvars>>

\* the states of the device that a baseline is started in
BaselineEntry == { "fxos_state", "rommon_state" }

call_baseline_fp2k_ftd ==
    \E flag \in BOOLEAN :
        /\ current_state \in BaselineEntry
        /\ Start("baseline_fp2k_ftd",
                 [NoArgs EXCEPT !.fxos_url = Url(<< "scp:", "",
                                   "pxe@172.23.47.63:", "tftpboot",
                                   "cisco-ftd-fp2k.6.2.1-1088.SSA" >>),
                                !.ftd_version = "6.2.1-1088",
                                !.uut_ip6 = "",
                                !.power_cycle_flag = flag])
        /\ to_state' = ""

call_wait_till ==
    \E upto \in { WaitTillUpto, 45 }, step \in { WaitTillStep, 20 } :
        /\ Start("wait_till",
                 [NoArgs EXCEPT !.wait_upto = upto, !.sleep_step = step])
        /\ to_state' = ""

\* users and passwords of the power bar that a caller may give: the defaults
\* of power_cycle and one other pair
PowerBarLogins == { << "admn", "admn" >>, << "root", "secret" >> }

call_power_cycle ==
    \E server \in { None, "", "pdu2" }, port \in { None, "", "7" },
       login \in PowerBarLogins, wait \in BOOLEAN :
        /\ Start("power_cycle",
                 [NoArgs EXCEPT !.power_bar = [server |-> server,
                                               port |-> port,
                                               user |-> login[1],
                                               pwd |-> login[2]],
                                !.wait_until_device_is_on = wait])
        /\ to_state' = ""

\* the caller invokes power_cycle with the stored power bar info and
\* without waiting for the device
call_power_cycle_now ==
    /\ Start("power_cycle",
             [NoArgs EXCEPT !.power_bar = [server |-> None, port |-> None,
                                          user |-> "admn", pwd |-> "admn"],
                           !.wait_until_device_is_on = FALSE])
    /\ to_state' = ""

call_install_rommon_build_fp2k ==
    /\ Start("install_rommon_build_fp2k", NoArgs)
    /\ to_state' = ""

call_rommon_factory_reset_and_format ==
    /\ Start("rommon_factory_reset_and_format", NoArgs)
    /\ to_state' = ""

(***************************************************************************)
(* The device objects and the Wm subclasses (wm/actions/wm.py).            *)
(***************************************************************************)
\* Wm.__init__: self.sm = WmStateMachine(self.patterns)
WmSm == "Wm.sm"

\* a line of a Wm device at rest
WmLine(chassis_line, determined, flag, bar) ==
    [Line(chassis_line, determined, flag, bar) EXCEPT !.sm = WmSm]

\* the caller constructs the device object it works with from then on, with
\* the power bar arguments `bar`; the device has no line yet
NewDeviceWith(label, bar) ==
    /\ Reset(label, [NoArgs EXCEPT !.power_bar = bar])
    /\ to_state' = ""
    /\ lines' = << >>
    /\ active' = 0
    /\ change_password_flag' = FALSE
    /\ power_bar' = NoPowerBar

NewDevice(label) == NewDeviceWith(label, KpConstants_power_bar)

call_Kp == NewDevice("Kp")

call_Wm == NewDevice("Wm")

\* the power bar arguments a caller gives to a device constructor
DevicePowerBars == { PowerBar("pduA", "1"), PowerBar("pduB", "2") }

\* the caller constructs a Kp device with power bar arguments
call_Kp_power_bar == \E bar \in DevicePowerBars : NewDeviceWith("Kp", bar)

\* the caller constructs another Kp device, for another chassis, and goes
\* on working with the device and the lines it has
call_other_Kp ==
    \E bar \in DevicePowerBars \cup { KpConstants_power_bar } :
        /\ Reset("other_Kp", [NoArgs EXCEPT !.power_bar = bar])
        /\ to_state' = ""
        /\ UNCHANGED <<change_password_flag, power_bar, lines, active>>

\* the body of a device constructor: its counter and a new state machine
DeviceInit(label, counter) ==
    /\ At(label)
    /\ metrics' = Append(metrics, counter)
    /\ current_state' = ""
    /\ Return
    /\ UNCHANGED <<sent, op, entry_state, args, lines, active>>
    /\ UNCHANGED <<linevars, gtvars, dlgvars, dlvars, pollvars>>

\* Kp.__init__: KpConstants.power_bar_server = power_bar_server, and so on
\* for the port, the user and the password
Kp ==
    /\ DeviceInit("Kp", "device.kp.init")
    /\ KpConstants' = args.power_bar
    /\ power_bar_given' = args.power_bar

\* Wm.__init__: super(Kp, self).__init__() passes over Kp.__init__, and the
\* constructor has no power bar arguments
Wm ==
    /\ DeviceInit("Wm", "device.wm.init")
    /\ UNCHANGED devvars

\* Kp.__init__ of the other device: it has a state machine of its own
other_Kp ==
    /\ At("other_Kp")
    /\ metrics' = Append(metrics, "device.kp.init")
    /\ KpConstants' = args.power_bar
    /\ Return
    /\ UNCHANGED <<current_state, sent, op, entry_state, args, lines, active,
                   power_bar_given>>
    /\ UNCHANGED <<linevars, gtvars, dlgvars, dlvars, pollvars>>

\* WmLine.baseline on a line of a Wm device
call_WmLine_baseline ==
    \E flag \in BOOLEAN :
        /\ current_state \in BaselineEntry
        /\ active \in DOMAIN lines
        /\ lines[active].sm = WmSm
        /\ Start("WmLine_baseline",
                 [NoArgs EXCEPT !.fxos_url = Url(<< "scp:", "",
                                   "pxe@172.23.47.63:", "tftpboot",
                                   "cisco-ftd-fp2k.6.2.1-1088.SSA" >>),
                                !.ftd_version = "6.2.1-1088",
                                !.uut_ip6 = "",
                                !.power_cycle_flag = flag])
        /\ to_state' = ""

\* WmLine.baseline: its counter, then super().baseline_fp2k_ftd(...)
WmLine_baseline ==
    /\ At("WmLine_baseline")
    /\ metrics' = Append(metrics, "device.wm.baseline")
    /\ UNCHANGED devvars
    /\ TailCalls(<< "baseline_fp2k_ftd" >>)
    /\ UNCHANGED <<current_state, sent, op, entry_state, args, lines, active>>
    /\ UNCHANGED <<linevars, gtvars, dlgvars, dlvars, pollvars>>

\* Wm.ssh_console, Wm.ssh_vty: self.line_class is WmLine, a new WmLine on
\* self.sm, which the caller works with from then on
new_WmLine ==
    \E chassis_line \in BOOLEAN :
        /\ Len(lines) < MaxLines
        /\ Reset("WmLine", [NoArgs EXCEPT !.chassis_line = chassis_line])
        /\ to_state' = ""
        /\ lines' = Stash
        /\ active' = Len(lines) + 1
        /\ change_password_flag' = FALSE
        /\ power_bar' = NoPowerBar

\* WmLine.__init__: super(KpLine, self).__init__ is the constructor of the
\* base line, which detects the state; there is no try block around it
WmLine_init ==
    /\ At("WmLine")
    /\ Call("go_to", "WmLine_detected")
    /\ to_state' = "any"
    /\ UNCHANGED <<current_state, sent, route, start_state, mark, hops>>
    /\ UNCHANGED <<linevars, callvars, dlgvars, dlvars, pollvars>>

\* WmLine.__init__: a console line that is not in rommon gets
\* init_terminal(determine_state=False)
WmLine_detected ==
    /\ At("WmLine_detected")
    /\ IF args.chassis_line /\ current_state # "rommon_state"
       THEN Call(InitTerminalEntry(FALSE), "WmLine_done")
       ELSE Goto("WmLine_done")
    /\ UNCHANGED <<current_state, sent>>
    /\ UNCHANGED <<linevars, callvars, gtvars, dlgvars, dlvars, pollvars>>

\* WmLine.__init__ ends: no power_bar attribute has been assigned
WmLine_done ==
    /\ At("WmLine_done")
    /\ lines' = Append(lines, WmLine(args.chassis_line, TRUE,
                                     change_password_flag, power_bar))
    /\ Return
    /\ UNCHANGED <<current_state, sent, op, entry_state, args, active,
                   metrics, devvars>>
    /\ UNCHANGED <<linevars, gtvars, dlgvars, dlvars, pollvars>>

(***************************************************************************)
(* Kp.poll_ssh_connection                                                  *)
(***************************************************************************)
\* poll_ssh_connection: retry=60
SshRetry == 60

\* poll_ssh_connection: for i in range(0, 60), around execute_lines
FxosTries == 60

\* poll_ssh_connection: for i in range(0, 60), around get_app_instance_list
AppPolls == 60

\* poll_ssh_connection: time.sleep(20) in the loop of the instances
AppSleep == 20

\* get_app_instance_list: what 'Operational State:' may show of an instance,
\* None when the block of the instance has no such line
OperationalStates == { None, "Online", "Starting" }

\* most instances the device shows
MaxApps == 2

\* get_app_instance_list: the lists it may return, the empty one when the
\* output has no 'Application Name:' in it
AppLists ==
    UNION { [1..n -> OperationalStates] : n \in 0..MaxApps }

\* the caller asks the Kp object for a line that is ready
call_poll_ssh_connection ==
    /\ Len(lines) < MaxLines
    /\ Reset("poll_ssh_connection", NoArgs)
    /\ to_state' = ""
    /\ lines' = Stash
    /\ active' = Len(lines) + 1
    /\ change_password_flag' = FALSE
    /\ power_bar' = NoPowerBar

\* poll_ssh_connection: one pass of the loop that waits for ssh; the line is
\* constructed when a connection has come up
poll_ssh_connection ==
    /\ At("poll_ssh_connection")
    /\ IF polls < SshRetry
       THEN \/ /\ TailCalls(<< "KpLine", "poll_ssh_connection_fxos" >>)
               /\ polls' = 0
               /\ slept' = 0
            \/ /\ polls' = polls + 1
               /\ slept' = slept + 10
               /\ UNCHANGED <<pc, result>>
       ELSE /\ Raise(RuntimeError("SSH connection not coming up after retries",
                                  "", SshRetry))
            /\ UNCHANGED <<polls, slept>>
    /\ UNCHANGED <<current_state, sent>>
    /\ UNCHANGED <<wait_upto, status, apps, clock, elapsed_time>>
    /\ UNCHANGED <<linevars, callvars, gtvars, dlgvars, dlvars>>

\* poll_ssh_connection: one pass of the loop that waits for FXOS
poll_ssh_connection_fxos ==
    /\ At("poll_ssh_connection_fxos")
    /\ IF polls < FxosTries
       THEN /\ sent' = << "top", "scope ssa" >>
            /\ \/ /\ Goto("poll_ssh_connection_apps")
                  /\ polls' = 0
                  /\ slept' = 0
               \/ /\ polls' = polls + 1
                  /\ slept' = slept + 10
                  /\ UNCHANGED <<pc, result>>
       ELSE /\ Raise(RuntimeError("FXOS not ready after 10 min", "", 0))
            /\ UNCHANGED <<sent, polls, slept>>
    /\ UNCHANGED current_state
    /\ UNCHANGED <<wait_upto, status, apps, clock, elapsed_time>>
    /\ UNCHANGED <<linevars, callvars, gtvars, dlgvars, dlvars>>

\* poll_ssh_connection: the head of the loop that waits for the instances
poll_ssh_connection_apps ==
    /\ At("poll_ssh_connection_apps")
    /\ IF polls < AppPolls
       THEN Call("get_app_instance_list", "poll_ssh_connection_online")
       ELSE Raise(RuntimeError(
                "Application instance not coming up after 20 min", "", 0))
    /\ UNCHANGED <<current_state, sent>>
    /\ UNCHANGED <<linevars, callvars, gtvars, dlgvars, dlvars, pollvars>>

\* get_app_instance_list: self.go_to('fxos_state')
get_app_instance_list ==
    /\ At("get_app_instance_list")
    /\ GoToThen("fxos_state", "get_app_instance_list_cmds")
    /\ UNCHANGED <<current_state, sent, route, start_state, mark, hops>>
    /\ UNCHANGED <<linevars, callvars, dlgvars, dlvars, pollvars>>

\* get_app_instance_list: execute_lines(cmd_lines) and the list that is
\* built from its output
get_app_instance_list_cmds ==
    /\ At("get_app_instance_list_cmds")
    /\ sent' = << "top", "scope ssa", "show app-instance detail" >>
    /\ \E shown \in AppLists : apps' = shown
    /\ Return
    /\ UNCHANGED current_state
    /\ UNCHANGED <<wait_upto, status, clock, elapsed_time, polls, slept>>
    /\ UNCHANGED <<linevars, callvars, gtvars, dlgvars, dlvars>>

\* poll_ssh_connection: "if app.operational_state is None"
state_missing(shown) == \E i \in DOMAIN shown : shown[i] = None

\* poll_ssh_connection: online, after the loop over the instances
online(shown) == \A i \in DOMAIN shown : shown[i] = "Online"

\* poll_ssh_connection: the instances of one poll are looked at
poll_ssh_connection_online ==
    /\ At("poll_ssh_connection_online")
    /\ IF state_missing(apps)
       THEN /\ Raise(RuntimeError(
                     "Cannot get app instance operational state", "", 0))
            /\ UNCHANGED <<polls, slept>>
       ELSE IF online(apps)
       THEN /\ Return
            /\ UNCHANGED <<polls, slept>>
       ELSE /\ Goto("poll_ssh_connection_apps")
            /\ polls' = polls + 1
            /\ slept' = slept + AppSleep
    /\ UNCHANGED <<current_state, sent>>
    /\ UNCHANGED <<wait_upto, status, apps, clock, elapsed_time>>
    /\ UNCHANGED <<linevars, callvars, gtvars, dlgvars, dlvars>>

\* a line at rest before its caller's first operation: the state of its
\* state machine, the lines the caller holds, the power bar attributes
InitOf(state, held, bar) ==
    /\ current_state = state
    /\ pc = << >>
    /\ op = ""
    /\ entry_state = current_state
    /\ args = NoArgs
    /\ result = Ok
    /\ sent = << >>
    /\ to_state = ""
    /\ route = << >>
    /\ start_state = ""
    /\ mark = 0
    /\ hops = << >>
    /\ dlg = ""
    /\ run_state = current_state
    /\ lastMatch = NoMatch
    /\ fprm_ver = ""
    /\ packages = {}
    /\ retry_count = 0
    /\ response = NoResponse
    /\ wait_upto = 0
    /\ status = ""
    /\ apps = << >>
    /\ clock = 0
    /\ elapsed_time = 0
    /\ polls = 0
    /\ slept = 0
    /\ change_password_flag = FALSE
    /\ power_bar = bar
    /\ power_cycled = << >>
    /\ steps = << >>
    /\ rebooted = FALSE
    /\ lines = held
    /\ active = Len(held)
    /\ metrics = << >>
    /\ KpConstants = KpConstants_power_bar
    /\ power_bar_given = KpConstants_power_bar

\* the state after the construction of a console line that detected the
\* state of the device
Init ==
    \E state \in StateNames :
        InitOf(state, << Line(TRUE, TRUE, FALSE, KpConstants_power_bar) >>,
               KpConstants_power_bar)

\* the state after Kp.__init__: a state machine that has detected nothing
\* yet, and no line
InitKp == InitOf("", << >>, NoPowerBar)

Next ==
    \/ call_go_to
    \/ call_wait_for_rommon
    \/ go_to
    \/ detect
    \/ hop
    \/ arrive
    \/ process
    \/ process_timeout
    \/ wait_for_rommon
    \/ wait_for_rommon_update
    \/ call_download_ftd_fp2k
    \/ download_ftd_fp2k
    \/ is_firmware_fp2k_ready
    \/ is_firmware_fp2k_ready_cmds
    \/ get_packages
    \/ download_attempt
    \/ wait_till_download_complete
    \/ download_poll
    \/ download_status
    \/ call_wait_till
    \/ wait_till
    \/ wait_till_poll
    \/ call_upgrade_bundle_package_fp2k
    \/ upgrade_bundle_package_fp2k
    \/ upgrade_install
    \/ upgrade_installed
    \/ upgrade_dialogs
    \/ set_power_bar
    \/ call_baseline_fp2k_ftd
    \/ baseline_fp2k_ftd
    \/ power_cycle_goto_rommon
    \/ rommon_factory_reset_and_format
    \/ rommon_factory_reset
    \/ rommon_boot
    \/ rommon_booted
    \/ change_password
    \/ change_password_done
    \/ init_terminal
    \/ init_terminal_fxos
    \/ init_terminal_cmds
    \/ format_goto_rommon
    \/ install_rommon_build_fp2k
    \/ rommon_configure
    \/ rommon_ping
    \/ rommon_tftp_download
    \/ rommon_tftp_done
    \/ rommon_tftp_enter
    \/ configure_manager
    \/ validate_version
    \/ validate_version_check
    \/ call_install_rommon_build_fp2k
    \/ call_rommon_factory_reset_and_format
    \/ new_line
    \/ use_line
    \/ KpLine
    \/ KpLine_rommon
    \/ KpLine_detected
    \/ KpLine_done
    \/ KpLine_alive
    \/ call_power_cycle
    \/ power_cycle
    \/ wait_until_device_on
    \/ wait_until_device_on_done

Spec == Init /\ [][Next]_vars

\* the state machine alone: go_to and wait_for_rommon
NextStateMachine ==
    \/ call_go_to
    \/ call_wait_for_rommon
    \/ go_to
    \/ detect
    \/ hop
    \/ arrive
    \/ process
    \/ process_timeout
    \/ wait_for_rommon
    \/ wait_for_rommon_update

SpecStateMachine == Init /\ [][NextStateMachine]_vars

\* the download of the bundle package and the polling loops
NextDownload ==
    \/ call_download_ftd_fp2k
    \/ download_ftd_fp2k
    \/ is_firmware_fp2k_ready
    \/ is_firmware_fp2k_ready_cmds
    \/ get_packages
    \/ download_attempt
    \/ wait_till_download_complete
    \/ download_poll
    \/ download_status
    \/ call_wait_till
    \/ wait_till
    \/ wait_till_poll
    \/ go_to
    \/ hop
    \/ arrive
    \/ process
    \/ process_timeout

SpecDownload == Init /\ [][NextDownload]_vars

\* the install of the bundle package
NextUpgrade ==
    \/ call_upgrade_bundle_package_fp2k
    \/ upgrade_bundle_package_fp2k
    \/ upgrade_install
    \/ upgrade_installed
    \/ upgrade_dialogs
    \/ go_to
    \/ hop
    \/ arrive
    \/ process
    \/ process_timeout

SpecUpgrade == Init /\ [][NextUpgrade]_vars

\* the baseline of a device
NextBaseline ==
    \/ set_power_bar
    \/ call_baseline_fp2k_ftd
    \/ baseline_fp2k_ftd
    \/ power_cycle_goto_rommon
    \/ rommon_factory_reset_and_format
    \/ rommon_factory_reset
    \/ rommon_boot
    \/ rommon_booted
    \/ change_password
    \/ change_password_done
    \/ init_terminal
    \/ init_terminal_fxos
    \/ init_terminal_cmds
    \/ format_goto_rommon
    \/ install_rommon_build_fp2k
    \/ rommon_configure
    \/ rommon_ping
    \/ rommon_tftp_download
    \/ rommon_tftp_done
    \/ rommon_tftp_enter
    \/ wait_for_rommon
    \/ wait_for_rommon_update
    \/ download_ftd_fp2k
    \/ is_firmware_fp2k_ready
    \/ is_firmware_fp2k_ready_cmds
    \/ get_packages
    \/ download_attempt
    \/ wait_till_download_complete
    \/ download_poll
    \/ download_status
    \/ upgrade_bundle_package_fp2k
    \/ upgrade_install
    \/ upgrade_installed
    \/ upgrade_dialogs
    \/ configure_manager
    \/ validate_version
    \/ validate_version_check
    \/ go_to
    \/ detect
    \/ hop
    \/ arrive
    \/ process
    \/ process_timeout

SpecBaseline == Init /\ [][NextBaseline]_vars

\* the state after the construction of a console line of a Wm device
InitWm ==
    \E state \in BaselineEntry :
        InitOf(state, << WmLine(TRUE, TRUE, FALSE, NoPowerBar) >>,
               NoPowerBar)

\* the device constructors and the baseline of a Wm device
NextWm ==
    \/ call_Kp
    \/ Kp
    \/ call_Wm
    \/ Wm
    \/ call_WmLine_baseline
    \/ WmLine_baseline
    \/ baseline_fp2k_ftd
    \/ power_cycle_goto_rommon
    \/ rommon_factory_reset_and_format
    \/ rommon_factory_reset
    \/ rommon_boot
    \/ rommon_booted
    \/ change_password
    \/ change_password_done
    \/ init_terminal
    \/ init_terminal_fxos
    \/ init_terminal_cmds
    \/ format_goto_rommon
    \/ install_rommon_build_fp2k
    \/ rommon_configure
    \/ rommon_ping
    \/ rommon_tftp_download
    \/ rommon_tftp_done
    \/ rommon_tftp_enter
    \/ wait_for_rommon
    \/ wait_for_rommon_update
    \/ download_ftd_fp2k
    \/ is_firmware_fp2k_ready
    \/ is_firmware_fp2k_ready_cmds
    \/ get_packages
    \/ download_attempt
    \/ wait_till_download_complete
    \/ download_poll
    \/ download_status
    \/ upgrade_bundle_package_fp2k
    \/ upgrade_install
    \/ upgrade_installed
    \/ upgrade_dialogs
    \/ configure_manager
    \/ validate_version
    \/ validate_version_check
    \/ go_to
    \/ detect
    \/ hop
    \/ arrive
    \/ process
    \/ process_timeout

SpecWm == InitWm /\ [][NextWm]_vars

\* the workflows that take the device through rommon
NextRommon ==
    \/ set_power_bar
    \/ call_install_rommon_build_fp2k
    \/ call_rommon_factory_reset_and_format
    \/ power_cycle_goto_rommon
    \/ rommon_factory_reset_and_format
    \/ rommon_factory_reset
    \/ rommon_boot
    \/ rommon_booted
    \/ change_password
    \/ change_password_done
    \/ init_terminal
    \/ init_terminal_fxos
    \/ init_terminal_cmds
    \/ format_goto_rommon
    \/ install_rommon_build_fp2k
    \/ rommon_configure
    \/ rommon_ping
    \/ rommon_tftp_download
    \/ rommon_tftp_done
    \/ rommon_tftp_enter
    \/ wait_for_rommon
    \/ wait_for_rommon_update
    \/ go_to
    \/ detect
    \/ hop
    \/ arrive
    \/ process
    \/ process_timeout

SpecRommon == Init /\ [][NextRommon]_vars

\* the lines of one Kp object: their construction and their state machine
NextLines ==
    \/ new_line
    \/ use_line
    \/ call_go_to
    \/ KpLine
    \/ KpLine_rommon
    \/ KpLine_detected
    \/ KpLine_done
    \/ KpLine_alive
    \/ wait_for_rommon
    \/ wait_for_rommon_update
    \/ init_terminal_fxos
    \/ init_terminal_cmds
    \/ go_to
    \/ detect
    \/ hop
    \/ arrive
    \/ process
    \/ process_timeout

SpecLines == InitKp /\ [][NextLines]_vars

\* Kp.poll_ssh_connection
NextPoll ==
    \/ call_poll_ssh_connection
    \/ poll_ssh_connection
    \/ poll_ssh_connection_fxos
    \/ poll_ssh_connection_apps
    \/ get_app_instance_list
    \/ get_app_instance_list_cmds
    \/ poll_ssh_connection_online
    \/ KpLine
    \/ KpLine_rommon
    \/ KpLine_detected
    \/ KpLine_done
    \/ KpLine_alive
    \/ init_terminal_fxos
    \/ init_terminal_cmds
    \/ wait_for_rommon
    \/ wait_for_rommon_update
    \/ go_to
    \/ detect
    \/ hop
    \/ arrive
    \/ process
    \/ process_timeout

SpecPoll == InitKp /\ [][NextPoll]_vars

\* power_cycle on a line that the constructor handed back, with its state
\* determined or kept alive
InitPowerCycle ==
    \/ Init
    \/ InitOf("", << Line(TRUE, FALSE, FALSE, NoPowerBar) >>, NoPowerBar)

NextPowerCycle ==
    \/ set_power_bar
    \/ call_power_cycle
    \/ power_cycle
    \/ wait_until_device_on
    \/ wait_until_device_on_done
    \/ init_terminal
    \/ init_terminal_fxos
    \/ init_terminal_cmds
    \/ go_to
    \/ detect
    \/ hop
    \/ arrive
    \/ process
    \/ process_timeout

SpecPowerCycle == InitPowerCycle /\ [][NextPowerCycle]_vars

\* the constructors of the lines of a Kp and of a Wm device, and power_cycle
\* on the lines they return
NextConstruct ==
    \/ new_line
    \/ new_WmLine
    \/ KpLine
    \/ KpLine_rommon
    \/ KpLine_detected
    \/ KpLine_done
    \/ KpLine_alive
    \/ WmLine_init
    \/ WmLine_detected
    \/ WmLine_done
    \/ wait_for_rommon
    \/ wait_for_rommon_update
    \/ init_terminal_fxos
    \/ init_terminal_cmds
    \/ call_power_cycle_now
    \/ power_cycle
    \/ go_to
    \/ detect
    \/ hop
    \/ arrive
    \/ process
    \/ process_timeout

SpecConstruct == InitKp /\ [][NextConstruct]_vars

\* the devices of a process and the lines of one of them
NextDevices ==
    \/ call_Kp_power_bar
    \/ Kp
    \/ call_other_Kp
    \/ other_Kp
    \/ new_line
    \/ KpLine
    \/ KpLine_rommon
    \/ KpLine_detected
    \/ KpLine_done
    \/ KpLine_alive
    \/ wait_for_rommon
    \/ wait_for_rommon_update
    \/ init_terminal_fxos
    \/ init_terminal_cmds
    \/ go_to
    \/ detect
    \/ hop
    \/ arrive
    \/ process
    \/ process_timeout

SpecDevices == InitKp /\ [][NextDevices]_vars

(***************************************************************************)
(* The graph that create describes, for the properties: the Path objects   *)
(* it constructs, and distances computed by relaxation over them.          *)
(***************************************************************************)
CreatedSet == { CreatedPaths[n] : n \in DOMAIN CreatedPaths }

RECURSIVE Within(_, _)
Within(a, n) ==
    IF n = 0 THEN { a }
    ELSE LET W == Within(a, n - 1)
         IN W \cup { p.to : p \in { q \in CreatedSet : q.from \in W } }

Reachable(a, b) == b \in Within(a, Len(states))

Dist(a, b) ==
    CHOOSE n \in 0..Len(states) :
        /\ b \in Within(a, n)
        /\ \A m \in 0..(n - 1) : b \notin Within(a, m)

\* w is a directed path of the graph from a to b
IsRoute(a, b, w) ==
    /\ \A i \in DOMAIN w : w[i] \in CreatedSet
    /\ \A i \in DOMAIN w :
          w[i].from = (IF i = 1 THEN a ELSE w[i - 1].to)
    /\ EndOf(a, w) = b

Commands(w) == [ i \in DOMAIN w |-> w[i].command ]

\* the lines written to the stream since go_to was called
SentByGoTo == SubSeq(sent, mark + 1, Len(sent))

\* go_to has executed all the Paths of its route and is about to return
GoToArrived == At("hop") /\ route = << >>

(***************************************************************************)
(* C1: go_to(B) called in state A, with B reachable from A, executes the   *)
(* Paths of a minimum-length directed path from A to B, sends exactly      *)
(* their commands in path order, and ends in B; it reports that there is   *)
(* no path only when B is not reachable from A.                            *)
(***************************************************************************)
C1_ShortestPath ==
    /\ GoToArrived =>
          /\ current_state = to_state
          /\ IsRoute(start_state, to_state, hops)
          /\ Len(hops) = Dist(start_state, to_state)
          /\ SentByGoTo = Commands(hops)
    /\ result.type = "NoPathError" => ~Reachable(result.msg, result.target)

\* a go_to over the longest of the shortest routes has returned
C1_Witness ==
    /\ GoToArrived
    /\ Len(hops) = 5
    /\ current_state = to_state

(***************************************************************************)
(* C2: go_to to another state called in rommon_state, and go_to of         *)
(* rommon_state called in another state, fail with NoPathError, send       *)
(* nothing and leave the current state as it was.                          *)
(***************************************************************************)
RommonInvolved ==
    /\ op = "go_to"
    /\ to_state \in StateNames
    /\ to_state # entry_state
    /\ "rommon_state" \in { to_state, entry_state }

C2_NoPathRommon ==
    RommonInvolved =>
        /\ sent = << >>
        /\ current_state = entry_state
        /\ \/ pc = << "go_to" >>
           \/ /\ pc = << >>
              /\ result = NoPathError(entry_state, to_state)

\* both cases have happened: out of rommon_state, and into it
C2_WitnessFrom ==
    /\ RommonInvolved /\ pc = << >>
    /\ entry_state = "rommon_state" /\ result.type = "NoPathError"

C2_WitnessInto ==
    /\ RommonInvolved /\ pc = << >>
    /\ to_state = "rommon_state" /\ result.type = "NoPathError"


(***************************************************************************)
(* The download of the bundle package.                                     *)
(***************************************************************************)
\* where `line` stands in the log of sent lines
Positions(line) == { i \in DOMAIN sent : sent[i] = line }

Downloads == Positions(DownloadCommand(args.fxos_url))

\* the waiting lines sent between two positions of the log
WaitsBetween(i, j) == Cardinality({ k \in i..j : sent[k] = "^C" })

DownloadGaveUp ==
    /\ op = "download_ftd_fp2k"
    /\ pc = << >>
    /\ result.msg = "Download failed after tries"

\* C5: download_ftd_fp2k never sends the download command more than three
\* times; when it gives up because every attempt ended Failed it has sent
\* the command exactly three times, the error names fxos_url and the number
\* of attempts, thirty waiting steps lie between one attempt and the next,
\* and none follows the last attempt.
C5_BoundedRetry ==
    op = "download_ftd_fp2k" =>
        /\ Cardinality(Downloads) <= 3
        /\ \A i, j \in Downloads :
             (i < j /\ \A k \in Downloads : ~(i < k /\ k < j))
                 => WaitsBetween(i, j) = 30
        /\ DownloadGaveUp =>
             /\ Cardinality(Downloads) = 3
             /\ result.type = "RuntimeError"
             /\ result.target = args.fxos_url.text
             /\ result.count = 3
             /\ \A i \in Downloads : i = Len(sent) \/ WaitsBetween(i, i) = 0
             /\ sent[Len(sent)] = DownloadCommand(args.fxos_url)

C5_Witness == DownloadGaveUp /\ Cardinality(Positions("^C")) = 60


\* C6: a polling loop makes no further pass once its deadline has elapsed:
\* whenever wait_upto seconds have passed since it began, the test of its
\* while is false.
C6_NoPollAfterDeadline ==
    (pc # << >> /\ Head(pc) \in { "download_poll", "wait_till_poll" }
        /\ clock >= wait_upto)
            => elapsed_time >= wait_upto

\* the loop of _wait_till_download_complete, past its deadline and about to
\* poll again
C6_PastDeadline ==
    /\ At("download_poll")
    /\ clock > wait_upto
    /\ elapsed_time < wait_upto

\* of the polling loops, wait_till makes no pass after its deadline
C6_WaitTillStops ==
    (At("wait_till_poll") /\ clock >= wait_upto) => elapsed_time >= wait_upto

DownloadComplete == At("download_status") /\ status = "Downloaded"

WaitTillComplete ==
    op = "wait_till" /\ pc = << >> /\ result = Ok /\ status = "True"

\* C7: a polling loop goes on only while no status check has reported
\* completion, and returns success with the report: when the report comes
\* with the 4th status check the loop returns after exactly those 4 checks,
\* having slept 40 seconds in _wait_till_download_complete (it sleeps before
\* each check) and 30 seconds in wait_till with sleep_step 10 (it sleeps
\* after each check that failed).
C7_FourthPoll ==
    /\ At("download_poll") => status \notin { "Downloaded", "True" }
    /\ At("wait_till_poll") => status \notin { "Downloaded", "True" }
    /\ DownloadComplete =>
         /\ polls >= 1
         /\ wait_upto = 1800
         /\ polls = 4 => slept = 40
    /\ (op = "wait_till" /\ pc = << >>) =>
         /\ result = Ok <=> status = "True"
         /\ (result = Ok /\ args.sleep_step = 10) =>
              /\ polls >= 1
              /\ polls = 4 => slept = 30

C7_Witness == DownloadComplete /\ polls = 4 /\ slept = 40

C7_WitnessWaitTill ==
    WaitTillComplete /\ polls = 4 /\ slept = 30 /\ args.sleep_step = 10


DownloadSent == Downloads # {}

FirmwareReady == fprm_ver = args.ftd_version

PackagePresent == bundle_package_name(args.fxos_url) \in packages

\* C9: download_ftd_fp2k has sent the download command only if the device
\* showed a firmware version other than ftd_version and a package list
\* without the bundle package; when the device shows ftd_version, or shows
\* the bundle package in its list, the operation returns normally having
\* sent no download command.
C9_DownloadOnlyWhenNeeded ==
    op = "download_ftd_fp2k" =>
        /\ DownloadSent =>
             /\ fprm_ver \in Versions
             /\ ~FirmwareReady
             /\ ~PackagePresent
        /\ (FirmwareReady \/ PackagePresent) =>
             /\ pc = << >>
             /\ result = Ok
             /\ ~DownloadSent
        /\ At("download_attempt") => (~FirmwareReady /\ ~PackagePresent)

C9_Witness ==
    /\ op = "download_ftd_fp2k"
    /\ pc = << >>
    /\ result = Ok
    /\ PackagePresent
    /\ ~FirmwareReady
    /\ ~DownloadSent

C9_WitnessReady ==
    op = "download_ftd_fp2k" /\ pc = << >> /\ result = Ok /\ FirmwareReady

C9_WitnessSent ==
    op = "download_ftd_fp2k" /\ pc = << >> /\ result = Ok /\ DownloadSent


(***************************************************************************)
(* The dialogs: which rule answers a match.                                *)
(***************************************************************************)
\* the rules of the dialog the last match was made in
MatchedIn == DialogRules(lastMatch.name)

\* a match has been made in the dialog that is running
Matched == lastMatch.name # "" /\ lastMatch.name = dlg

(***************************************************************************)
(* C3: in every dialog of the program, when the buffer satisfies the       *)
(* patterns of several rules at once, the rule whose action is executed is *)
(* the first of them in list order, and no rule after it is executed for   *)
(* that match; in d1 of upgrade_bundle_package_fp2k a buffer that          *)
(* satisfies 'Invalid Software Version' and another rule is answered by    *)
(* the 'Invalid Software Version' rule, the first of the list.             *)
(***************************************************************************)
C3_FirstMatchInListOrder ==
    Matched =>
        /\ lastMatch.index \in DOMAIN MatchedIn
        /\ lastMatch.rule = MatchedIn[lastMatch.index]
        /\ lastMatch.rule.pattern \in lastMatch.satisfied
        /\ \A j \in DOMAIN MatchedIn :
              MatchedIn[j].pattern \in lastMatch.satisfied =>
                  lastMatch.index <= j
        /\ ( /\ lastMatch.name = "upgrade_d1"
             /\ "Invalid Software Version" \in lastMatch.satisfied ) =>
                  /\ lastMatch.index = 1
                  /\ lastMatch.rule.pattern = "Invalid Software Version"
                  /\ ~lastMatch.rule.loop_continue

\* d1 has met a buffer that satisfies 'Invalid Software Version' and one
\* more rule, and has returned
C3_Witness ==
    /\ At("upgrade_installed")
    /\ lastMatch.name = "upgrade_d1"
    /\ "Invalid Software Version" \in lastMatch.satisfied
    /\ Cardinality(lastMatch.satisfied) = 2

(***************************************************************************)
(* C4: when a dialog run ends with DialogTimeout the current state is the  *)
(* state the run began in; wait_for_rommon sets the current state to       *)
(* rommon_state only after its dialog has matched, so that a timeout of    *)
(* the dialog leaves the current state as it was when wait_for_rommon was  *)
(* called.                                                                 *)
(***************************************************************************)
TimedOut == result.type = "DialogTimeout"

C4_TimeoutKeepsState ==
    /\ TimedOut =>
          /\ pc = << >>
          /\ current_state = run_state
    /\ (TimedOut /\ op = "wait_for_rommon") => current_state = entry_state
    /\ At("wait_for_rommon_update") =>
          /\ lastMatch.name = "wait_for_rommon"
          /\ ~lastMatch.rule.loop_continue

\* the dialog of wait_for_rommon has timed out on a device not in rommon
C4_Witness ==
    /\ TimedOut
    /\ op = "wait_for_rommon"
    /\ result.target = "wait_for_rommon"
    /\ current_state # "rommon_state"

\* the dialog of a transition has timed out in the middle of a route
C4_WitnessTransition ==
    /\ TimedOut
    /\ op = "go_to"
    /\ hops # << >>
    /\ route # << >>

(***************************************************************************)
(* C10: in the dialog of a transition the default login_password statement *)
(* answers a match only when the buffer satisfies no rule of the Path's    *)
(* own dialog; on the transition from expert_state to sudo_state a         *)
(* password prompt is answered by the rule of the Path, which sends the    *)
(* sudo password, and not by the default statement.                        *)
(***************************************************************************)
InTransition == Matched /\ dlg = "transition" /\ route # << >>

C10_PathRulesBeforeDefault ==
    InTransition =>
        /\ lastMatch.origin = "default" =>
              lastMatch.satisfied \cap PatternsOf(Head(route).dialog) = {}
        /\ ( /\ Head(route).from = "expert_state"
             /\ Head(route).to = "sudo_state"
             /\ password_prompt \in lastMatch.satisfied ) =>
                  /\ lastMatch.origin = "path"
                  /\ lastMatch.rule.kind = "sendline"
                  /\ lastMatch.rule.text = sudo_password
                  /\ lastMatch.rule.text # login_password

\* the password prompt has been answered on the way from expert_state to
\* sudo_state
C10_Witness ==
    /\ InTransition
    /\ Head(route).from = "expert_state"
    /\ Head(route).to = "sudo_state"
    /\ password_prompt \in lastMatch.satisfied

\* the default statement has answered a password prompt of another
\* transition
C10_WitnessDefault ==
    /\ InTransition
    /\ lastMatch.origin = "default"
    /\ lastMatch.rule.text = login_password

(***************************************************************************)
(* The baseline of a device that already holds the bundle package.         *)
(***************************************************************************)
InstallSent == Positions(InstallCommand(args.ftd_version)) # {}

\* baseline_fp2k_ftd has found the bundle package in the package list
BaselineHasPackage == op = "baseline_fp2k_ftd" /\ PackagePresent

\* the download step of the baseline has returned
AfterDownloadStep ==
    /\ At("baseline_fp2k_ftd")
    /\ steps # << >>
    /\ Last(steps) = "download_ftd_fp2k"

C8_WitnessValidated ==
    /\ BaselineHasPackage
    /\ "validate_version" \in Range(steps)

(***************************************************************************)
(* The commands of the Paths on the stream.                                *)
(***************************************************************************)
\* the lines that a step writes to the stream
NewLines ==
    IF Len(sent') >= Len(sent) /\ SubSeq(sent', 1, Len(sent)) = sent
    THEN SubSeq(sent', Len(sent) + 1, Len(sent'))
    ELSE sent'

\* the from-states of the Paths whose command is `line`
FromStatesOf(line) ==
    { p.from : p \in { q \in Range(paths) : q.command = line } }

\* a line that is the command of a Path; the empty line, which go_to('any')
\* and the workflows send as a plain ENTER, is left out
IsPathCommand(line) == line # "" /\ FromStatesOf(line) # {}

(***************************************************************************)
(* C11: whenever a step of an operation (go_to, or a workflow step such as *)
(* format_goto_rommon) writes the command of a Path to the stream, the     *)
(* current state is the from-state of a Path with that command.            *)
(***************************************************************************)
C11_CommandInFromState ==
    [][ \A i \in DOMAIN NewLines :
            IsPathCommand(NewLines[i]) =>
                current_state \in FromStatesOf(NewLines[i]) ]_vars

\* format_goto_rommon has written 'connect local-mgmt', the command of the
\* Path from fxos_state to local_mgmt_state, in another state
C11_Witness ==
    /\ At("process")
    /\ dlg = "format_d"
    /\ sent = << "connect local-mgmt", "format everything" >>
    /\ current_state # "fxos_state"

\* the same, in a state that is not the outcome of a failed detection
C11_WitnessFireos ==
    /\ C11_Witness
    /\ op = "install_rommon_build_fp2k"
    /\ entry_state = "fireos_state"
    /\ current_state = "fireos_state"

(***************************************************************************)
(* C12, C13: the lines of one Kp object and their state machine.           *)
(***************************************************************************)
\* the state machine objects there are, each with its current_state
StateMachines == [m \in { KpSm } |-> current_state]

\* the current_state read through line j
current_state_of(j) == StateMachines[lines[j].sm]

\* a line the constructor has handed to the caller
HandedBack(j) == j \in DOMAIN lines

\* C12 as stated: every line handed back to a caller has a determined
\* current-state that is one of the declared states.
C12_EveryLineDetermined ==
    \A j \in DOMAIN lines :
        lines[j].determined /\ current_state_of(j) \in StateNames

\* what holds of the lines the caller has
KeptAliveIsConsoleLine ==
    \A j \in DOMAIN lines :
        /\ ~lines[j].determined => lines[j].chassis_line
        /\ lines[j].determined => current_state_of(j) \in StateNames

\* the step in which the constructor raises "Unknown device state"
RaisesUnknownState ==
    /\ op = "KpLine" /\ pc # << >> /\ pc' = << >>
    /\ result' = Err("RuntimeError", "Unknown device state", "", 0)

\* C12, amended: a line handed back with an undetermined state is a console
\* line (chassis_line) that was kept alive, and a line whose state was
\* determined has a declared state; when the detection fails on a line that
\* is not a console line, the constructor raises "Unknown device state" and
\* the caller gets no line.
C12_OnlyConsoleLineKeptAlive ==
    /\ []KeptAliveIsConsoleLine
    /\ [][ /\ RaisesUnknownState => ~args.chassis_line /\ lines' = lines
           /\ (At("detect") /\ op = "KpLine" /\ ~args.chassis_line
                  /\ pc' # << "KpLine_detected" >>)
                 => RaisesUnknownState ]_vars

\* the constructor has returned a console line whose state nobody determined
C12_Witness ==
    /\ op = "KpLine" /\ pc = << >> /\ result = Ok
    /\ HandedBack(active)
    /\ ~lines[active].determined
    /\ lines[active].chassis_line
    /\ current_state = ""

\* the constructor of a line that is no console line has raised
C12_WitnessRaised ==
    /\ op = "KpLine" /\ pc = << >>
    /\ result.type = "RuntimeError"
    /\ ~args.chassis_line
    /\ ~HandedBack(active)

\* C13: two lines of the same Kp object each have their own state machine:
\* no step made through the line in use changes the current_state that is
\* read through another line.
C13_OwnStateMachine ==
    [][ \A j \in DOMAIN lines :
            j # active =>
                StateMachines'[lines[j].sm] = StateMachines[lines[j].sm] ]_vars

\* a line of ssh_vty and a line of poll_ssh_connection, both with their
\* state determined, and a go_to through one of them that has moved the
\* current_state of the state machine
C13_Witness ==
    /\ Len(lines) = 2
    /\ lines[1].chassis_line # lines[2].chassis_line
    /\ \A j \in DOMAIN lines : lines[j].determined
    /\ op = "go_to" /\ pc = << >> /\ result = Ok
    /\ HandedBack(active)
    /\ current_state # entry_state
    /\ \E j \in DOMAIN lines : j # active /\ lines[j].sm = lines[active].sm

(***************************************************************************)
(* C14: go_to to the state the line is in.                                 *)
(***************************************************************************)
\* go_to is about to run with the current state as its argument
GoToSameState == At("go_to") /\ to_state # "any" /\ to_state = current_state

\* the go_to that is_firmware_fp2k_ready makes in download_ftd_fp2k
SecondGoTo ==
    /\ At("go_to")
    /\ Len(pc) > 1
    /\ pc[2] = "is_firmware_fp2k_ready_cmds"

\* C14: go_to(S) with current_state already S returns at once, writes
\* nothing to the stream and leaves current_state at S; the go_to of
\* is_firmware_fp2k_ready, which comes after the go_to('fxos_state') of
\* download_ftd_fp2k, is such a call.
C14_GoToSameStateIsNoOp ==
    /\ [](SecondGoTo => GoToSameState)
    /\ [][ GoToSameState =>
              /\ pc' = Tail(pc)
              /\ result' = (IF Len(pc) = 1 THEN Ok ELSE result)
              /\ sent' = sent
              /\ current_state' = current_state ]_vars

\* download_ftd_fp2k was called in another state, went to fxos_state with
\* commands, and is_firmware_fp2k_ready calls go_to('fxos_state') again
C14_Witness ==
    /\ SecondGoTo
    /\ GoToSameState
    /\ op = "download_ftd_fp2k"
    /\ entry_state # "fxos_state"
    /\ current_state = "fxos_state"
    /\ sent # << >>

\* the second go_to has returned: nothing was written after the commands of
\* the first one
C14_WitnessReturned ==
    /\ At("is_firmware_fp2k_ready_cmds")
    /\ op = "download_ftd_fp2k"
    /\ entry_state = "local_mgmt_state"
    /\ current_state = "fxos_state"
    /\ sent = << "exit" >>

(***************************************************************************)
(* C15: re-detection after a boot.                                         *)
(***************************************************************************)
\* the line is about to make a go_to to a named state
NamedGoTo ==
    \/ At("go_to") /\ to_state \in StateNames
    \/ At("init_terminal_fxos")
    \/ At("download_ftd_fp2k")
    \/ At("upgrade_bundle_package_fp2k")

C15_WitnessPowerCycle ==
    /\ op = "power_cycle"
    /\ At("init_terminal")
    /\ rebooted
    /\ power_cycled # << >>

(***************************************************************************)
(* C17: validate_version.                                                  *)
(***************************************************************************)
\* the version and the build that ftd_version names
Expected(ftd_version) ==
    CASE ftd_version = "6.2.1-1088" -> ShowVersion("6.2.1", "1088")
      [] ftd_version = "6.2.2-81" -> ShowVersion("6.2.2", "81")
      [] OTHER -> NoResponse

\* the step ends the operation with a RuntimeError
RaisesRuntimeError == pc' = << >> /\ result'.type = "RuntimeError"

\* C17: validate_version raises whenever the version or the build that
\* 'show version' printed is not the version or the build of ftd_version, and
\* goes on normally only when both are.
C17_MismatchRaises ==
    [][ At("validate_version_check") =>
            (RaisesRuntimeError <=> response # Expected(args.ftd_version))
      ]_vars

\* 'show version' has printed build 108 and the line expects 6.2.1-1088
C17_Witness ==
    /\ At("validate_version_check")
    /\ args.ftd_version = "6.2.1-1088"
    /\ response = ShowVersion("6.2.1", "108")
    /\ response # Expected(args.ftd_version)
    /\ version_matches(response, args.ftd_version)

(***************************************************************************)
(* C16: failures of the steps of baseline_fp2k_ftd.                        *)
(***************************************************************************)
\* the download has failed and no attempt is left
DownloadFailed ==
    At("download_status") /\ status = "Failed"
        /\ attempts_left(retry_count) = 0

\* the dialog of rommon_tftp_download ends without a match
TftpTimesOut ==
    At("process") /\ dlg = "tftp_d" /\ UNCHANGED dlgvars /\ pc' # pc

\* the device has refused the version of the package
InvalidVersion ==
    At("upgrade_installed") /\ invalid_software_version(lastMatch)

\* validate_version has found another version or build
VersionMismatch ==
    At("validate_version_check")
        /\ ~version_matches(response, args.ftd_version)

\* C16: in baseline_fp2k_ftd, a failed download with no attempt left, a
\* failed tftp download in rommon, a refused software version and a version
\* mismatch each end baseline_fp2k_ftd with a RuntimeError that reaches the
\* caller; no later step of the workflow begins.
C16_FailureEndsBaseline ==
    [][ ( /\ op = "baseline_fp2k_ftd"
          /\ DownloadFailed \/ TftpTimesOut \/ InvalidVersion
                \/ VersionMismatch )
        => /\ pc' = << >>
           /\ result'.type = "RuntimeError"
           /\ steps' = steps ]_vars

\* baseline_fp2k_ftd has ended with the failure of the download, and
\* upgrade_bundle_package_fp2k has not begun
C16_Witness ==
    /\ op = "baseline_fp2k_ftd"
    /\ pc = << >>
    /\ result.type = "RuntimeError"
    /\ result.msg = "Download failed after tries"
    /\ Last(steps) = "download_ftd_fp2k"

\* baseline_fp2k_ftd has ended with the failure of the tftp download
C16_WitnessTftp ==
    /\ op = "baseline_fp2k_ftd"
    /\ pc = << >>
    /\ result.type = "RuntimeError"
    /\ result.msg = "Download failed. Please check details"
    /\ Last(steps) = "install_rommon_build_fp2k"

(***************************************************************************)
(* C18: what the timeout errors of the polling loops carry.                *)
(***************************************************************************)
\* the operation has ended with the timeout error of a polling loop
PollingTimedOut ==
    /\ pc = << >>
    /\ result.type = "RuntimeError"
    /\ result.msg \in { "download took too long",
                        "took too long to return True" }

\* C18: the timeout error of wait_till and of _wait_till_download_complete
\* carries the operation name or the target, and the elapsed duration.
C18_TimeoutCarriesDuration ==
    PollingTimedOut =>
        /\ result.target # ""
        /\ result.count = elapsed_time
        /\ result.count >= wait_upto

\* wait_till has given up after its deadline
C18_Witness ==
    /\ PollingTimedOut
    /\ op = "wait_till"
    /\ result.msg = "took too long to return True"
    /\ result.target # ""
    /\ elapsed_time >= wait_upto
    /\ wait_upto > 0

\* _wait_till_download_complete has given up after its deadline
C18_WitnessDownload ==
    /\ PollingTimedOut
    /\ op = "download_ftd_fp2k"
    /\ result.msg = "download took too long"
    /\ elapsed_time >= wait_upto

(***************************************************************************)
(* C19, C20: power_cycle and the stored power bar info.                    *)
(***************************************************************************)
\* the line has a power bar server and port stored
PowerBarStored ==
    /\ power_bar # NoPowerBar
    /\ ~Falsy(power_bar.server)
    /\ ~Falsy(power_bar.port)

\* power_cycle is about to run with power_bar_server=None and
\* power_bar_port=None
PowerCycleWithStored ==
    /\ At("power_cycle")
    /\ args.power_bar.server = None
    /\ args.power_bar.port = None
    /\ PowerBarStored

\* C19: power_cycle with power_bar_server=None and power_bar_port=None on a
\* line whose power bar info was set passes the stored server, port, user
\* and password to power_cycle_all_ports and leaves the four stored values
\* as they are, whatever power_bar_user and power_bar_pwd it is given.
C19_StoredPowerBarUsed ==
    [][ PowerCycleWithStored =>
            /\ power_cycled' = Append(power_cycled, power_bar)
            /\ power_bar' = power_bar ]_vars

\* the stored info was used although another user and password were given
C19_Witness ==
    /\ op = "power_cycle"
    /\ pc = << >>
    /\ result = Ok
    /\ args.power_bar =
           [server |-> None, port |-> None, user |-> "root", pwd |-> "secret"]
    /\ power_bar = PowerBar("pdu", "3")
    /\ power_cycled = << PowerBar("pdu", "3") >>

\* no value that could be used as a server or a port
Unavailable(x) == x \in { None, "", Unset }

\* power_cycle is about to run without a server or a port to use
PowerCycleWithoutPowerBar ==
    /\ At("power_cycle")
    /\ \/ Unavailable(power_bar.server) /\ Unavailable(args.power_bar.server)
       \/ Unavailable(power_bar.port) /\ Unavailable(args.power_bar.port)
       \/ args.power_bar.server = ""
       \/ args.power_bar.port = ""

\* power_cycle returns None: no external call, no wait, nothing stored
ReturnsNone ==
    /\ pc' = Tail(pc)
    /\ result' = Ok
    /\ power_cycled' = power_cycled
    /\ power_bar' = power_bar
    /\ rebooted' = rebooted

\* C20: with neither a stored nor a supplied server (or port), or with an
\* empty string supplied for the server or the port, power_cycle returns
\* None without calling power_cycle_all_ports, without waiting for the
\* device and without changing the stored power bar info.
C20_InvalidPowerBarReturnsNone ==
    [][ PowerCycleWithoutPowerBar => ReturnsNone ]_vars

\* the same for a line whose constructor has assigned its power bar
\* attributes
C20_OnAssignedLine ==
    [][ (PowerCycleWithoutPowerBar /\ power_bar # NoPowerBar)
            => ReturnsNone ]_vars

\* power_cycle on a line that was kept alive with its state undetermined
C20_Witness ==
    /\ At("power_cycle")
    /\ power_bar = NoPowerBar
    /\ ~lines[active].determined
    /\ args.power_bar.server = None
    /\ args.power_bar.port = None

\* power_cycle has returned None on a line with no power bar stored
C20_WitnessReturned ==
    /\ op = "power_cycle"
    /\ pc = << >>
    /\ result = Ok
    /\ power_bar = PowerBar("", "")
    /\ args.power_bar.server = "pdu2"
    /\ args.power_bar.port = None
    /\ power_cycled = << >>

(***************************************************************************)
(* C21: rommon_tftp_download sends 'tftpdnld' each time the rommon prompt  *)
(* shows again, however often that has happened; its dialog ends well only *)
(* with the 'Password: ' rule; a failure of the dialog becomes a           *)
(* RuntimeError that names the tftp server and the image file, and the     *)
(* change of the password is not run after it.                             *)
(***************************************************************************)
TftpRunning == At("process") /\ dlg = "tftp_d"

\* the rommon prompt shows and the engine answers it
TftpRetry ==
    /\ process
    /\ "rommon.*> " \in lastMatch'.satisfied

TftpDownloadFailed ==
    RuntimeError("Download failed. Please check details",
                 "tftp_server, rommon_file", 0)

\* C21: in rommon_tftp_download the rommon prompt is answered with
\* 'tftpdnld' and the dialog goes on, without a limit on the number of
\* times; the dialog returns only on 'Password: '; any other end is the
\* RuntimeError about the tftp server and the image file, with which the
\* operation ends before __change_password
C21_TftpRetriesUntilPassword ==
    /\ [](TftpRunning => ENABLED TftpRetry)
    /\ [][ TftpRunning =>
             \/ /\ pc' = pc
                /\ lastMatch'.rule.loop_continue
                /\ "rommon.*> " \in lastMatch'.satisfied =>
                      /\ lastMatch'.rule.kind = "sendline"
                      /\ lastMatch'.rule.text = "tftpdnld"
             \/ /\ pc' = Tail(pc)
                /\ Head(pc') = "rommon_tftp_done"
                /\ lastMatch'.rule.pattern = "Password: "
                /\ result' = result
             \/ /\ pc' = << >>
                /\ result' = TftpDownloadFailed
                /\ UNCHANGED <<change_password_flag, dlgvars, sent>> ]_vars

\* 'tftpdnld' has been sent MaxRepeat times in a row and the dialog waits on
C21_Witness ==
    /\ TftpRunning
    /\ lastMatch.rule.text = "tftpdnld"
    /\ lastMatch.times = MaxRepeat

\* the dialog has timed out after a retry
C21_WitnessFailed ==
    /\ result = TftpDownloadFailed
    /\ lastMatch.rule.text = "tftpdnld"
    /\ pc = << >>

\* the dialog has ended with the 'Password: ' rule
C21_WitnessPassword ==
    /\ At("rommon_tftp_done")
    /\ lastMatch.rule.pattern = "Password: "

(***************************************************************************)
(* C22: every top-level operation publishes exactly one counter increment: *)
(* the construction of a Kp, the construction of a Wm, a call of           *)
(* KpLine.baseline_fp2k_ftd and a call of WmLine.baseline.                 *)
(***************************************************************************)
CountedOperations == { "Kp", "Wm", "baseline_fp2k_ftd", "WmLine_baseline" }

\* C22: an operation that publishes a counter has published at most one
\* increment while it runs and exactly one when it has ended
C22_OneCounterPerInvocation ==
    op \in CountedOperations =>
        /\ Len(metrics) <= 1
        /\ pc = << >> => Len(metrics) = 1

\* a call of WmLine.baseline has returned and two increments were published
C22_Witness ==
    /\ op = "WmLine_baseline"
    /\ pc = << >>
    /\ result = Ok
    /\ metrics = << "device.wm.baseline", "device.kp.baseline" >>

\* the constructors publish one increment each, of their own counter
C22_ConstructorsPublishOne ==
    /\ (op = "Kp" /\ pc = << >>) => metrics = << "device.kp.init" >>
    /\ (op = "Wm" /\ pc = << >>) => metrics = << "device.wm.init" >>

\* baseline_fp2k_ftd called on the line publishes one increment
C22_BaselinePublishesOne ==
    op = "baseline_fp2k_ftd" =>
        /\ Len(metrics) <= 1
        /\ steps # << >> => metrics = << "device.kp.baseline" >>

C22_WitnessConstructed == op = "Wm" /\ pc = << >> /\ Len(metrics) = 1

C22_WitnessBaseline ==
    op = "baseline_fp2k_ftd" /\ pc = << >> /\ result = Ok /\ Len(metrics) = 1

(***************************************************************************)
(* C23: when the detection of the state fails in the constructor of a      *)
(* KpLine, a line that is no console line gets RuntimeError('Unknown       *)
(* device state') and no recovery; a console line waits for rommon, and    *)
(* when that fails too the constructor returns, raising nothing and        *)
(* sending no command of the terminal initialisation.                      *)
(***************************************************************************)
\* the step in which super().__init__ fails to detect the state
DetectionFails ==
    /\ op = "KpLine"
    /\ pc = << "detect", "KpLine_detected" >>
    /\ pc' # << "KpLine_detected" >>

\* the step in which the wait for rommon of the constructor fails
RommonWaitFails ==
    /\ op = "KpLine"
    /\ pc = << "process", "wait_for_rommon_update", "KpLine_in_rommon" >>
    /\ pc' # pc
    /\ pc' # << "wait_for_rommon_update", "KpLine_in_rommon" >>

InitCmdsSent == Range(sent) \cap Range(KpInitCmds) # {}

\* C23: a failed detection ends the constructor of a line that is no console
\* line with RuntimeError('Unknown device state') at once, and sends a
\* console line to wait_for_rommon; a failed wait for rommon leads to the
\* return of the constructor, which gives the caller its line, raises
\* nothing and has sent no command of KpInitCmds
C23_DetectionFailure ==
    [][ /\ DetectionFails =>
              IF args.chassis_line
              THEN /\ pc' = << "KpLine_rommon" >>
                   /\ result' = Running
              ELSE /\ pc' = << >>
                   /\ result' = RuntimeError("Unknown device state", "", 0)
                   /\ UNCHANGED <<sent, lines, current_state>>
        /\ At("KpLine_rommon") => pc' = << "wait_for_rommon",
                                           "KpLine_in_rommon" >>
        /\ RommonWaitFails =>
              /\ args.chassis_line
              /\ pc' = << "KpLine_alive" >>
              /\ result' = Running
        /\ At("KpLine_alive") =>
              /\ pc' = << >>
              /\ result' = Ok
              /\ lines' = Append(lines, lines'[Len(lines')])
              /\ ~InitCmdsSent'
              /\ UNCHANGED <<sent, current_state>> ]_vars

\* the wait for rommon has timed out after a failed detection: the
\* constructor of the console line is about to return
C23_Witness ==
    /\ op = "KpLine"
    /\ At("KpLine_alive")
    /\ args.chassis_line
    /\ dlg = "wait_for_rommon"
    /\ lastMatch = NoMatch
    /\ sent = << "" >>

\* the constructor of a line that is no console line has raised
C23_WitnessRaised ==
    /\ op = "KpLine" /\ pc = << >>
    /\ result = RuntimeError("Unknown device state", "", 0)
    /\ sent = << "" >>

(***************************************************************************)
(* C24: poll_ssh_connection returns a line only after an application       *)
(* instance was seen in the operational state 'Online'; until then it      *)
(* polls, at most 60 times and 20s apart, and then fails with a            *)
(* RuntimeError.                                                           *)
(***************************************************************************)
PollReturned == op = "poll_ssh_connection" /\ pc = << >> /\ result = Ok

SeenOnline == \E i \in DOMAIN apps : apps[i] = "Online"

AppsNotComingUp ==
    RuntimeError("Application instance not coming up after 20 min", "", 0)

\* C24: when poll_ssh_connection has returned its line, the last list of
\* application instances it looked at had an instance that was 'Online';
\* and it gives up with its RuntimeError only after 60 polls, 20s apart
C24_ReturnsAfterOnline ==
    /\ PollReturned => SeenOnline
    /\ (op = "poll_ssh_connection" /\ result = AppsNotComingUp) =>
           polls = AppPolls /\ slept = AppPolls * AppSleep

\* poll_ssh_connection has returned its line at the first poll, in which the
\* device showed no application instance at all
C24_Witness ==
    /\ PollReturned
    /\ apps = << >>
    /\ polls = 0
    /\ sent = << "top", "scope ssa", "show app-instance detail" >>

\* what the loop does ensure: no instance it looked at last was in another
\* state than 'Online', and the RuntimeError of the loop comes after 60 polls
C24_NoneSeenNotOnline ==
    /\ PollReturned => online(apps) /\ polls < AppPolls
    /\ (op = "poll_ssh_connection" /\ result = AppsNotComingUp) =>
           polls = AppPolls /\ slept = AppPolls * AppSleep

C24_WitnessOnline == PollReturned /\ SeenOnline /\ polls = AppPolls - 1

C24_WitnessGaveUp ==
    op = "poll_ssh_connection" /\ result = AppsNotComingUp /\ pc = << >>

(***************************************************************************)
(* C25: wait_for_rommon sets the current state to rommon_state only after  *)
(* the rommon prompt was matched on the stream; a match of                 *)
(* 'Boot in 10 seconds.' alone, which sends ESC, does not commit the       *)
(* state.                                                                  *)
(***************************************************************************)
RommonPromptMatched == StatePattern("rommon_state") \in lastMatch.satisfied

\* C25: the step of wait_for_rommon that makes rommon_state the current
\* state follows a dialog run whose last match had the rommon prompt on the
\* stream
C25_RommonAfterPrompt ==
    [][ (At("wait_for_rommon_update") /\ current_state' = "rommon_state")
            => RommonPromptMatched ]_vars

\* the dialog of wait_for_rommon has returned on 'Boot in 10 seconds.' with
\* no rommon prompt on the stream, ESC is sent, and the update of the
\* current state is the next statement
C25_Witness ==
    /\ op = "wait_for_rommon"
    /\ At("wait_for_rommon_update")
    /\ lastMatch.satisfied = { "Boot in 10 seconds." }
    /\ lastMatch.rule.text = "ESC"
    /\ ~lastMatch.rule.loop_continue
    /\ current_state # "rommon_state"

\* the update after a match of the rommon prompt alone
C25_WitnessPrompt ==
    /\ At("wait_for_rommon_update")
    /\ lastMatch.satisfied = { StatePattern("rommon_state") }

(***************************************************************************)
(* C26: baseline_fp2k_ftd runs its steps in one order, each after the      *)
(* return of the one before: the power cycle to rommon and the factory     *)
(* reset (only with power_cycle_flag), the rommon build, the out-of-band   *)
(* configuration, download_ftd_fp2k, upgrade_bundle_package_fp2k,          *)
(* go_to('any'), go_to('fireos_state'), configure_manager (if and only if  *)
(* manager is not None and mode is not 'local'), validate_version.         *)
(***************************************************************************)
BaselineOrder(flag, with_manager) ==
    (IF flag THEN << "power_cycle_goto_rommon",
                     "rommon_factory_reset_and_format" >>
             ELSE << >>)
    \o << "install_rommon_build_fp2k", "execute_lines", "download_ftd_fp2k",
          "upgrade_bundle_package_fp2k", "go_to any", "go_to fireos_state" >>
    \o (IF with_manager THEN << "configure_manager" >> ELSE << >>)
    \o << "validate_version" >>

IsPrefix(a, b) == Len(a) <= Len(b) /\ a = SubSeq(b, 1, Len(a))

\* whether the baseline is to configure a manager, as far as its arguments
\* have been looked at
WithManager ==
    IF args.manager = Unread \/ args.mode = Unread THEN BOOLEAN
    ELSE { args.manager # None /\ args.mode # "local" }

\* C26: the steps that a baseline has begun are the first steps of the
\* order; a baseline that returned has begun them all; and a step begins
\* when the call stack holds baseline_fp2k_ftd alone, the step before it
\* having returned
C26_BaselineOrder ==
    /\ [](op = "baseline_fp2k_ftd" =>
            /\ \E w \in WithManager :
                  IsPrefix(steps, BaselineOrder(args.power_cycle_flag, w))
            /\ (pc = << >> /\ result = Ok) =>
                  /\ args.manager # Unread /\ args.mode # Unread
                  /\ \A w \in WithManager :
                        steps = BaselineOrder(args.power_cycle_flag, w))
    /\ [][ (steps' # steps /\ steps' # << >>) =>
              /\ pc = << "baseline_fp2k_ftd" >>
              /\ Len(steps') = Len(steps) + 1 ]_vars

\* a baseline with power_cycle_flag and a manager in remote mode has
\* returned after its ten steps
C26_Witness ==
    /\ op = "baseline_fp2k_ftd" /\ pc = << >> /\ result = Ok
    /\ args.power_cycle_flag
    /\ args.manager = "fmc" /\ args.mode = "remote"
    /\ Len(steps) = 10
    /\ steps[9] = "configure_manager"

\* a baseline with a manager in local mode has returned without
\* configure_manager
C26_WitnessLocal ==
    /\ op = "baseline_fp2k_ftd" /\ pc = << >> /\ result = Ok
    /\ args.manager = "fmc" /\ args.mode = "local"
    /\ ~args.power_cycle_flag
    /\ Len(steps) = 7

(***************************************************************************)
(* C27: validate_version goes to fxos_state only after the validation      *)
(* succeeded: a baseline that returns normally is in fxos_state, and a     *)
(* mismatch error leaves the current state what it was, fireos_state in    *)
(* the baseline, with no transition made.                                  *)
(***************************************************************************)
InBaseline == op = "baseline_fp2k_ftd"

Validating == At("validate_version") \/ At("validate_version_check")

\* the step in which validate_version raises its mismatch error
MismatchRaised ==
    /\ At("validate_version_check")
    /\ pc' = << >>
    /\ result'.msg = "does not match ftd package image"

\* C27: in a baseline the line is in fireos_state until validate_version
\* has compared the versions; the mismatch error leaves it there, with
\* nothing sent and no Path executed; a baseline that returned normally is
\* in fxos_state
C27_FxosAfterValidation ==
    /\ []((InBaseline /\ Validating) => current_state = "fireos_state")
    /\ []((InBaseline /\ pc = << >> /\ result = Ok) =>
             current_state = "fxos_state")
    /\ [][ (InBaseline /\ MismatchRaised) =>
              /\ current_state' = "fireos_state"
              /\ UNCHANGED <<current_state, sent, hops, route>> ]_vars

\* the baseline has ended with the mismatch error, still in fireos_state
C27_Witness ==
    /\ InBaseline /\ pc = << >>
    /\ result.msg = "does not match ftd package image"
    /\ current_state = "fireos_state"
    /\ Last(steps) = "validate_version"

\* the baseline has returned, in fxos_state, after validate_version
C27_WitnessReturned ==
    /\ InBaseline /\ pc = << >> /\ result = Ok
    /\ Last(steps) = "validate_version"
    /\ current_state = "fxos_state"
    /\ entry_state = "rommon_state"

(***************************************************************************)
(* C28: whenever rommon_factory_reset_and_format returns normally, from    *)
(* whatever state it was started in and in both branches (boot disk found  *)
(* and formatted, or boot disk not found), the current state is            *)
(* rommon_state.                                                           *)
(***************************************************************************)
FactoryResetReturned ==
    /\ op = "rommon_factory_reset_and_format"
    /\ pc = << >>
    /\ result = Ok

\* C28: a rommon_factory_reset_and_format that has returned to the caller
\* has left the line in rommon_state; so has the first step of
\* install_rommon_build_fp2k, which is that function when the line is in
\* rommon_state, when rommon_configure begins
C28_ReturnsInRommon ==
    /\ FactoryResetReturned => current_state = "rommon_state"
    /\ At("rommon_configure") => current_state = "rommon_state"

\* started in fxos_state, the function returned from the branch in which
\* the boot disk is not found
C28_Witness ==
    /\ FactoryResetReturned
    /\ entry_state = "fxos_state"
    /\ Last(sent) = "boot"
    /\ ~rebooted

\* started in rommon_state, the function returned after the format
C28_WitnessFormat ==
    /\ FactoryResetReturned
    /\ entry_state = "rommon_state"
    /\ sent = << "connect local-mgmt", "format everything" >>
    /\ change_password_flag

(***************************************************************************)
(* C29: init_terminal and the StateMachineError of its go_to calls.        *)
(***************************************************************************)

\* go_to('any') or go_to('fxos_state') is running on behalf of init_terminal
InitTerminalGoTo ==
    /\ Len(pc) >= 2
    /\ pc[1] \in { "go_to", "detect" }
    /\ pc[2] \in { "init_terminal_fxos", "init_terminal_cmds" }

\* the step on which go_to raises a StateMachineError: there is no path to
\* the state asked for, or no prompt of a state is recognised
StateMachineErrorRaised ==
    \/ /\ At("go_to")
       /\ to_state # "any"
       /\ ~already_there(current_state, to_state)
       /\ get_shortest_path(current_state, to_state) = {}
       /\ pc' # pc
    \/ /\ At("detect")
       /\ to_state' = "any"
       /\ pc' # pc

\* install_rommon_build_fp2k has returned without an error
InstallReturned ==
    /\ op = "install_rommon_build_fp2k"
    /\ pc = << >>
    /\ result = Ok

\* the last lines sent are the commands of KpInitCmds
InitCmdsLast ==
    /\ Len(sent) >= Len(KpInitCmds)
    /\ SubSeq(sent, Len(sent) - Len(KpInitCmds) + 1, Len(sent)) = KpInitCmds

\* C29: when a go_to of init_terminal fails with a StateMachineError,
\* init_terminal returns to its caller without an error, sends nothing and
\* leaves the current state as it is.
C29_StateMachineErrorSwallowed ==
    [][ InitTerminalGoTo /\ StateMachineErrorRaised =>
          /\ pc' = SubSeq(pc, 3, Len(pc))
          /\ result' = IF Len(pc) = 2 THEN Ok ELSE result
          /\ sent' = sent
          /\ current_state' = current_state ]_vars

\* C29: install_rommon_build_fp2k that returns has the terminal initialised
\* exactly when its last go_to did not fail.
C29_InitCmdsUnlessFailed ==
    InstallReturned => (InitCmdsLast <=> to_state = "")

\* C29: install_rommon_build_fp2k has returned normally after
\* go_to('fxos_state') failed: the line is not in fxos_state and no
\* command of KpInitCmds has been sent
C29_Witness ==
    /\ InstallReturned
    /\ to_state = "fxos_state"
    /\ current_state # "fxos_state"
    /\ Range(sent) \cap Range(KpInitCmds) = {}

\* C29: the same after go_to('any') recognised no state
C29_WitnessUndetected ==
    /\ InstallReturned
    /\ to_state = "any"
    /\ Range(sent) \cap Range(KpInitCmds) = {}

(***************************************************************************)
(* C30: the terminal initialisation of a new KpLine.                       *)
(***************************************************************************)

\* the constructor of KpLine is at the test of line 317: the state of the
\* line is known
StateKnown ==
    /\ op = "KpLine"
    /\ At("KpLine_detected") \/ At("KpLine_in_rommon")

\* a console line that is not in rommon
ConsoleNotInRommon == args.chassis_line /\ current_state # "rommon_state"

\* the three commands the claim names
TerminalCmds == << "top", "terminal length 0", "terminal width 511" >>

\* the constructor has returned a line whose state was determined
Constructed ==
    /\ op = "KpLine"
    /\ pc = << >>
    /\ result = Ok
    /\ lines # << >>
    /\ lines[Len(lines)].determined

\* the commands of the transitions of the state machine
PathCommands == { paths[i].command : i \in DOMAIN paths }

\* C30: the constructor of a console line that is not in rommon_state calls
\* init_terminal, which sends 'top', 'terminal length 0' and
\* 'terminal width 511' in this order once the line is in fxos_state; a
\* line in rommon_state and a line that is no console line get no
\* init_terminal, and the constructor ends with nothing more sent and the
\* state unchanged.
C30_InitTerminalOnConstruction ==
    [][ /\ StateKnown =>
              /\ pc' = IF ConsoleNotInRommon
                       THEN << "init_terminal_fxos", "KpLine_done" >>
                       ELSE << "KpLine_done" >>
              /\ sent' = sent
              /\ Range(sent) \cap Range(TerminalCmds) = {}
        /\ op = "KpLine" /\ At("init_terminal_cmds") =>
              /\ current_state = "fxos_state"
              /\ sent' = sent \o TerminalCmds
              /\ pc' = << "KpLine_done" >>
        /\ op = "KpLine" /\ At("KpLine_done") =>
              /\ current_state' = current_state
              /\ sent' = sent
              /\ pc' = << >> ]_vars

\* C30: a constructed console line is in fxos_state with the three commands
\* as the last lines sent, or in rommon_state with none of them sent and no
\* transition made; a constructed line that is no console line has none of
\* them sent and no transition made.
C30_ConstructedLine ==
    Constructed =>
        IF ConsoleNotInRommon
        THEN /\ current_state = "fxos_state"
             /\ Len(sent) >= 3
             /\ SubSeq(sent, Len(sent) - 2, Len(sent)) = TerminalCmds
             /\ Range(SubSeq(sent, 1, Len(sent) - 3)) \cap Range(TerminalCmds)
                    = {}
        ELSE /\ Range(sent) \cap Range(TerminalCmds) = {}
             /\ Range(sent) \cap PathCommands \subseteq { "" }

\* C30: a console line found in another state than fxos_state has made the
\* transitions and then sent the three commands
C30_Witness ==
    /\ Constructed
    /\ args.chassis_line
    /\ current_state = "fxos_state"
    /\ Len(sent) > 4
    /\ SubSeq(sent, Len(sent) - 2, Len(sent)) = TerminalCmds

\* C30: a console line constructed in rommon_state
C30_WitnessRommon ==
    /\ Constructed
    /\ args.chassis_line
    /\ current_state = "rommon_state"
    /\ Range(sent) \cap Range(TerminalCmds) = {}

\* C30: a constructed line that is no console line, in another state than
\* rommon_state and fxos_state
C30_WitnessVty ==
    /\ Constructed
    /\ ~args.chassis_line
    /\ current_state \notin { "rommon_state", "fxos_state" }
    /\ Range(sent) \cap Range(TerminalCmds) = {}

(***************************************************************************)
(* C31: the power bar attributes of a constructed line.                    *)
(***************************************************************************)

\* the constructor of a KpLine or of a WmLine has returned without raising,
\* and the caller holds the line
LineReturned ==
    /\ op \in { "KpLine", "WmLine" }
    /\ pc = << >>
    /\ result = Ok
    /\ active \in DOMAIN lines

\* power_cycle has ended because the line has no attribute power_bar_server
PowerCycleWithoutAttribute ==
    /\ op = "power_cycle"
    /\ pc = << >>
    /\ result.type = "AttributeError"

\* C31: a line whose constructor returned has its four power bar fields
\* assigned, and power_cycle on a line the caller holds does not fail for
\* want of them.
C31_PowerBarInitialised ==
    /\ LineReturned => lines[active].power_bar # NoPowerBar
    /\ ~PowerCycleWithoutAttribute

\* C31: the same for the lines of a Kp device whose state was determined
C31_DeterminedKpLine ==
    /\ LineReturned /\ op = "KpLine" /\ lines[active].determined
           => lines[active].power_bar = KpConstants_power_bar
    /\ PowerCycleWithoutAttribute
           => lines[active].sm = WmSm \/ ~lines[active].determined

\* C31: a KpLine kept alive after the detection and the drop to rommon
\* failed has no power bar field
C31_Witness ==
    /\ LineReturned
    /\ op = "KpLine"
    /\ ~lines[active].determined
    /\ lines[active].power_bar = NoPowerBar

\* C31: a WmLine has no power bar field
C31_WitnessWm ==
    /\ LineReturned
    /\ op = "WmLine"
    /\ lines[active].power_bar = NoPowerBar

\* C31: power_cycle on a WmLine
C31_WitnessPowerCycle ==
    /\ PowerCycleWithoutAttribute
    /\ lines[active].sm = WmSm

\* C31: a KpLine whose state was determined has the defaults
C31_WitnessAssigned ==
    /\ LineReturned
    /\ op = "KpLine"
    /\ lines[active].power_bar = KpConstants_power_bar

(***************************************************************************)
(* C32: the server and the port that power_cycle hands to                  *)
(* power_cycle_all_ports.                                                  *)
(***************************************************************************)

\* power_cycle has made the external call
ExternalCallMade == op = "power_cycle" /\ power_cycled # << >>

\* exactly one of power_bar_server and power_bar_port was supplied
OnlyOneSupplied == Falsy(args.power_bar.server) # Falsy(args.power_bar.port)

\* C32: the server and the port of every external power cycle call are
\* non-empty.
C32_ServerAndPortPassed ==
    \A i \in DOMAIN power_cycled :
        /\ ~Falsy(power_cycled[i].server)
        /\ ~Falsy(power_cycled[i].port)

\* C32: the same for the calls in which both or neither were supplied
C32_BothOrNeitherSupplied ==
    ExternalCallMade /\ ~OnlyOneSupplied =>
        \A i \in DOMAIN power_cycled :
            /\ ~Falsy(power_cycled[i].server)
            /\ ~Falsy(power_cycled[i].port)

\* C32: power_cycle was given a server and no port on a line with a port
\* stored: the external call got None for the port, and None is stored
C32_Witness ==
    /\ ExternalCallMade
    /\ args.power_bar.server = "pdu2"
    /\ args.power_bar.port = None
    /\ Last(power_cycled).server = "pdu2"
    /\ Last(power_cycled).port = None
    /\ power_bar.port = None

\* C32: the same with a port and no server
C32_WitnessPort ==
    /\ ExternalCallMade
    /\ args.power_bar.server = None
    /\ args.power_bar.port = "7"
    /\ Last(power_cycled).server = None
    /\ Last(power_cycled).port = "7"

\* C32: the stored info is used when neither is supplied
C32_WitnessStored ==
    /\ ExternalCallMade
    /\ args.power_bar.server = None
    /\ args.power_bar.port = None
    /\ Last(power_cycled).server = "pdu"
    /\ Last(power_cycled).port = "3"

(***************************************************************************)
(* C33: power_cycle_goto_rommon.                                           *)
(***************************************************************************)

\* the stored power bar info has a server and a port
StoredValid == ~Falsy(power_bar.server) /\ ~Falsy(power_bar.port)

C33_WitnessInvalid ==
    /\ At("wait_for_rommon")
    /\ steps = << "power_cycle_goto_rommon" >>
    /\ current_state = "fxos_state"
    /\ power_cycled = << >>

\* C33: power_cycle_goto_rommon begins in rommon_state with valid power bar
\* info stored
C33_WitnessRommon ==
    /\ At("power_cycle_goto_rommon")
    /\ current_state = "rommon_state"
    /\ StoredValid

(***************************************************************************)
(* C34: change_password_flag.                                              *)
(***************************************************************************)

\* the change-password dialog has ended on its rule
\* 'Your password (was|has been) updated successfully'
EndedOnUpdated ==
    /\ lastMatch.name = "change_password_dialog"
    /\ lastMatch.rule.pattern
           = "Your password (was|has been) updated successfully"
    /\ ~lastMatch.rule.loop_continue

\* the rule 'Password: ' of d2 has answered
LoginAnswered ==
    /\ lastMatch.name = "upgrade_d2"
    /\ lastMatch.rule.pattern = "Password: "

\* C34: the flag of a line changes only in __change_password, only from
\* False to True and only when the dialog ended on the rule 'Your password
\* (was|has been) updated successfully'; and the 'Password: ' rule of
\* upgrade_bundle_package_fp2k answers with login_password when the flag is
\* set and with default_password when it is not.
C34_FlagSetOnlyOnUpdate ==
    [][ /\ change_password_flag' # change_password_flag =>
              /\ At("change_password_done")
              /\ EndedOnUpdated
              /\ ~change_password_flag
              /\ change_password_flag'
        /\ At("change_password_done") /\ EndedOnUpdated
              => change_password_flag'
        /\ LoginAnswered' =>
              lastMatch'.rule.text = IF change_password_flag
                                     THEN login_password
                                     ELSE default_password ]_vars

\* C34: the flag of a line that the constructor has returned is False
C34_NewLineUnset ==
    op \in { "KpLine", "WmLine" } /\ pc = << >> /\ active \in DOMAIN lines
        => /\ ~change_password_flag
           /\ ~lines[active].change_password_flag

\* C34: the upgrade logs in with login_password after the password was
\* changed in the same baseline
C34_Witness ==
    /\ LoginAnswered
    /\ change_password_flag
    /\ lastMatch.rule.text = login_password
    /\ "install_rommon_build_fp2k" \in Range(steps)

\* C34: the upgrade logs in with default_password on a line whose flag is
\* not set
C34_WitnessDefault ==
    /\ LoginAnswered
    /\ ~change_password_flag
    /\ lastMatch.rule.text = default_password

\* C34: __change_password ended on the prompt of fxos_state and the flag is
\* as it was
C34_WitnessNotRequired ==
    /\ At("change_password_done")
    /\ lastMatch.rule.pattern = StatePattern("fxos_state")
    /\ ~change_password_flag

(***************************************************************************)
(* C35: the end of the install dialog of upgrade_bundle_package_fp2k.      *)
(***************************************************************************)

\* the install dialog d1 has ended without a timeout
InstallDialogEnded ==
    /\ op = "upgrade_bundle_package_fp2k"
    /\ At("upgrade_installed")
    /\ lastMatch.name = "upgrade_d1"

\* the dialogs after d1: the login, the EULA, the password and the network
\* configuration
FollowingDialogs ==
    { "upgrade_d2", "upgrade_d3", "upgrade_d4", "upgrade_d5", "upgrade_d6" }

\* C35: the install dialog ends on 'Invalid Software Version' or on 'Failed
\* logins since the last login:'; after the first the function raises
\* RuntimeError at once, with nothing sent and no further dialog begun, and
\* only after the second it goes on to the login.
C35_InvalidVersionRaises ==
    [][ InstallDialogEnded =>
          IF lastMatch.rule.pattern = "Invalid Software Version"
          THEN /\ pc' = << >>
               /\ result'.type = "RuntimeError"
               /\ result'.msg = "Invalid Software Version"
               /\ sent' = sent
               /\ dlg' \notin FollowingDialogs
          ELSE /\ lastMatch.rule.pattern
                      = "Failed logins since the last login:"
               /\ dlg' = "upgrade_d2"
               /\ result' = result ]_vars

\* C35: a dialog after d1 runs or has answered only in a function that has
\* not failed
C35_NoResponseAfterFailure ==
    op = "upgrade_bundle_package_fp2k"
        /\ (dlg \in FollowingDialogs \/ lastMatch.name \in FollowingDialogs)
        /\ pc = << >>
        => result.type # "RuntimeError" \/ result.msg # "Invalid Software Version"

\* C35: the function has ended with the RuntimeError of the invalid version
C35_Witness ==
    /\ op = "upgrade_bundle_package_fp2k"
    /\ pc = << >>
    /\ result.type = "RuntimeError"
    /\ result.msg = "Invalid Software Version"
    /\ lastMatch.name \notin FollowingDialogs

\* C35: the install dialog has ended on 'Failed logins since the last
\* login:'
C35_WitnessInstalled ==
    /\ InstallDialogEnded
    /\ lastMatch.rule.pattern = "Failed logins since the last login:"

\* C35: the install dialog has ended on 'Invalid Software Version' with the
\* text of the other ending in the same output
C35_WitnessBoth ==
    /\ InstallDialogEnded
    /\ lastMatch.rule.pattern = "Invalid Software Version"
    /\ "Failed logins since the last login:" \in lastMatch.satisfied

(***************************************************************************)
(* C36: the states other than rommon_state in the graph of the state       *)
(* machine.                                                                *)
(***************************************************************************)

\* the states other than rommon_state
Connected == StateNames \ { "rommon_state" }

\* a go_to between two of these states
GoToConnected ==
    /\ op = "go_to"
    /\ entry_state \in Connected
    /\ to_state \in Connected

\* C36: there are nine states other than rommon_state; between any two of
\* them the state machine finds a route, of at most 5 transitions, and of
\* at most 4 transitions when the route leads to fxos_state; a go_to
\* between two of them does not fail for want of a path and makes no more
\* transitions than that.
C36_StronglyConnected ==
    /\ Cardinality(Connected) = 9
    /\ \A a \in Connected, b \in Connected :
          /\ get_shortest_path(a, b) # {}
          /\ \A r \in get_shortest_path(a, b) :
                /\ Len(r) <= 5
                /\ b = "fxos_state" => Len(r) <= 4
    /\ GoToConnected =>
          /\ result.type # "NoPathError"
          /\ Len(hops) <= 5
          /\ to_state = "fxos_state" => Len(hops) <= 4

\* C36: a go_to from config_state has reached fxos_state, in 4 transitions
C36_Witness ==
    /\ GoToConnected
    /\ GoToArrived
    /\ entry_state = "config_state"
    /\ to_state = "fxos_state"
    /\ current_state = "fxos_state"
    /\ Len(hops) = 4

\* C36: a go_to from config_state has reached sudo_state, in 5 transitions
C36_WitnessLongest ==
    /\ GoToConnected
    /\ GoToArrived
    /\ entry_state = "config_state"
    /\ to_state = "sudo_state"
    /\ current_state = "sudo_state"
    /\ Len(hops) = 5

(***************************************************************************)
(* C37: the default power bar info of a line and the devices of a process. *)
(***************************************************************************)

\* the constructor of a KpLine has returned a line with its defaults set
DefaultsSet ==
    /\ op = "KpLine"
    /\ pc = << >>
    /\ result = Ok
    /\ active \in DOMAIN lines
    /\ lines[active].determined

\* C37: the default power bar info of a line is what the constructor of its
\* device was given.
C37_DefaultsOfOwnDevice ==
    DefaultsSet => lines[active].power_bar = power_bar_given

\* C37: the default power bar info of a line is what KpConstants holds when
\* the line is constructed
C37_DefaultsOfKpConstants ==
    [][ At("KpLine_done") => power_bar' = KpConstants ]_vars

\* C37: as long as no other device is constructed, KpConstants holds what
\* the device of the caller was given
C37_AloneInProcess ==
    [][ op' # "other_Kp" /\ KpConstants = power_bar_given
            => KpConstants' = power_bar_given' ]_vars

\* C37: a line of a device constructed with one power bar has the power bar
\* given to a device constructed after it
C37_Witness ==
    /\ DefaultsSet
    /\ power_bar_given = PowerBar("pduA", "1")
    /\ lines[active].power_bar = PowerBar("pduB", "2")

\* C37: a line of a device has the defaults given to that device
C37_WitnessOwn ==
    /\ DefaultsSet
    /\ power_bar_given = PowerBar("pduA", "1")
    /\ lines[active].power_bar = PowerBar("pduA", "1")


=============================================================================
